---- MODULE Spec2Model ----
(***************************************************************************)
(* KafkaAdminClient (kafka/admin/client.py): the controller-bound call     *)
(* with its bounded refresh-and-resend, the fan-out executor              *)
(* (send_requests / _wait_for_futures) with the coordinator lookup built  *)
(* on it, delete_records with its per-leader routing, the operations that *)
(* build their requests per broker, coordinator or resource, the timeout  *)
(* they forward, close(), the versioned lists of request and response     *)
(* classes (kafka/protocol/admin.py), and                                 *)
(* RoundRobinPartitionAssignor.assign                                     *)
(* (kafka/coordinator/assignors/roundrobin.py).                           *)
(*                                                                         *)
(* The broker client (await_ready, send, poll, least_loaded_node,          *)
(* api_version, check_version) is the environment: every answer it can     *)
(* give is a nondeterministic choice of the action that consumes it.       *)
(***************************************************************************)
EXTENDS Integers, Sequences, FiniteSets, TLC

(***************************************************************************)
(* Bounds of the model.                                                    *)
(***************************************************************************)
\* brokers of the cluster are the node ids 1..NumNodes
NumNodes == 2
\* most error entries a controller-bound response carries
MaxEntries == 2
\* the counters of the model stop counting at MaxCount
MaxCount == 2
\* most requests handed to one send_requests call
MaxRequests == 2

\* the highest broker level: a broker of level l supports versions 0 .. l
MaxLevel == 4

\* the most calls of close() on one instance
MaxCloseCalls == 3

(***************************************************************************)
(* Program constants.                                                      *)
(***************************************************************************)
\* tries = 2 in _send_request_to_controller
InitialTries == 2
\* _refresh_controller_id(self, timeout_ms=30000)
RefreshTimeoutMs == 30000
\* api_version(MetadataRequest, max_version=8)
MetadataMaxVersion == 8
\* controller_id == -1: the broker knows no controller
NoController == -1
\* node_id is None: the caller names no node
None == 0
\* api_version(FindCoordinatorRequest, max_version=2)
FindCoordinatorMaxVersion == 2

\* DEFAULT_CONFIG['request_timeout_ms']
request_timeout_ms == 30000

\* the argument timeout_ms of an operation: None, or a number of milliseconds
NoTimeout == [none |-> TRUE, value |-> 0]
Timeout(ms) == [none |-> FALSE, value |-> ms]
TimeoutArgs == {NoTimeout} \cup {Timeout(ms) : ms \in {0, 1, request_timeout_ms}}

\* _validate_timeout: timeout_ms or self.config['request_timeout_ms'], where
\* None and 0 are the values of timeout_ms that Python's "or" passes over
_validate_timeout(timeout_ms) ==
    IF timeout_ms.none \/ timeout_ms.value = 0
    THEN request_timeout_ms
    ELSE timeout_ms.value

Nodes == 1 .. NumNodes

\* versions check_version can report for a broker
BrokerVersions == {<<0, 9, 0>>, <<0, 10, 0>>, <<1, 0, 0>>}

\* error codes a broker puts in the entries of a topic-level response and of
\* an ElectLeaders response
TopicCodes == {0, 36, 41}
ElectionCodes == {0, 3, 41, 84}

ControllerOps ==
    {"create_topics", "delete_topics", "create_partitions", "perform_leader_election"}

VARIABLES
    controller_id,   \* self._controller_id
    c_pc,            \* position of the controller-bound call
    c_op,            \* the operation that runs _send_request_to_controller
    tries,           \* local variable tries
    c_sent,          \* node ids the request was sent to, in order
    c_response,      \* local variable response, once the call returns or raises on it
    c_history,       \* per response received, in order: the errors it carried
    c_refreshes,     \* calls of _refresh_controller_id made by this call
    md_sends,        \* Metadata requests sent by this call
    md_first,        \* what the first Metadata response of this call answered
    md_last,         \* the controller that the Metadata response of the latest
                     \* refresh named, until the next pass of the loop
    elapsed,         \* seconds since the refresh computed timeout_at
    refreshed_id,    \* id the most recent successful refresh cached
    c_outcome,       \* "none", "returned" or "raised"
    c_error,         \* name of the exception raised
    c_retval,        \* the response returned
    f_pc,            \* position of the send_requests call
    f_op,            \* the operation that runs send_requests
    f_version,       \* version the requests of the operation are built at
    f_input,         \* requests_and_node_ids
    f_group_ids,     \* group_ids of _find_coordinator_ids
    f_futures,       \* local variable futures of send_requests
    f_i,             \* position of the for loop of _wait_for_futures, 0 at the while test
    f_order,         \* indices of the futures, in the order they completed
    f_ready_failed,  \* await_ready raised for a target of this call
    f_outcome,       \* "none", "returned" or "raised"
    f_error,         \* name of the exception raised
    f_raised_in,     \* "submit", "wait" or "response_fn": where it was raised
    f_result,        \* the value returned
    d_pc,                \* position of the delete_records call
    records_to_delete,   \* argument records_to_delete: topic partition -> offset
    partition_leader_id, \* argument partition_leader_id
    d_timeout_ms,        \* argument timeout_ms
    leader2partitions,   \* leader -> partitions, in insertion order
    d_k,                 \* position of the loop over leader2partitions
    d_metadata,          \* the Metadata response of the leader lookup
    d_requests,          \* DeleteRecords requests sent, with their node
    d_responses,         \* local variable responses
    d_stage,             \* where the call ended: "leaders", "send" or "interpret"
    d_verdict,           \* how the call ended: returned value or raised error
    o_pc,            \* position of the running operation
    o_op,            \* the running operation
    o_args,          \* its arguments
    o_cluster,       \* the negotiated level and the level of each broker
    o_phase,         \* "find" while _find_coordinator_ids runs, then "main"
    o_requests,      \* the (request, node_id) list about to be sent
    o_sent,          \* the requests sent, each with the node it went to
    o_awaited,       \* the nodes that await_ready was called for, in call order
    o_items,         \* groups_coordinators.items()
    o_responses,     \* the responses to the requests of the operation
    o_outcome,       \* "returned" or "raised"
    o_error,         \* the exception raised
    o_result,        \* the value returned
    _closed,         \* self._closed
    close_calls,     \* calls of close() so far
    metrics_closes,  \* calls of self._metrics.close() so far
    client_closes,   \* calls of self._client.close() so far
    a_pc,                \* position of the assign call
    group_subscriptions, \* argument group_subscriptions, in the order of the dict
    a_cluster,           \* argument cluster: the partition count of each topic
    a_verdict            \* how assign ended: the assignment returned or the error

ctlVars == <<controller_id, c_pc, c_op, tries, c_sent, c_response, c_history,
             c_refreshes,
             md_sends, md_first, md_last, elapsed, refreshed_id, c_outcome, c_error,
             c_retval>>

foVars == <<f_pc, f_op, f_version, f_input, f_group_ids, f_futures, f_i, f_order,
            f_ready_failed, f_outcome, f_error, f_raised_in, f_result>>

drVars == <<d_pc, records_to_delete, partition_leader_id, d_timeout_ms, leader2partitions, d_k,
            d_metadata, d_requests, d_responses, d_stage, d_verdict>>

opVars == <<o_pc, o_op, o_args, o_cluster, o_phase, o_requests, o_sent, o_awaited,
            o_items, o_responses, o_outcome, o_error, o_result>>

closeVars == <<_closed, close_calls, metrics_closes, client_closes>>

asVars == <<a_pc, group_subscriptions, a_cluster, a_verdict>>

vars == <<ctlVars, foVars, drVars, opVars, closeVars, asVars>>

(***************************************************************************)
(* Helpers.                                                                *)
(***************************************************************************)
SeqsUpTo(S, n) == UNION {[1 .. k -> S] : k \in 0 .. n}

Min(a, b) == IF a < b THEN a ELSE b

\* every way of cutting a sequence into consecutive non-empty pieces
RECURSIVE Segments(_)
Segments(s) ==
    IF s = <<>> THEN {<<>>}
    ELSE UNION {{<<SubSeq(s, 1, k)>> \o rest :
                    rest \in Segments(SubSeq(s, k + 1, Len(s)))} : k \in 1 .. Len(s)}

\* Python's tuple comparison a < b on (major, minor, patch)
TupleLess(a, b) ==
    \/ a[1] < b[1]
    \/ a[1] = b[1] /\ a[2] < b[2]
    \/ a[1] = b[1] /\ a[2] = b[2] /\ a[3] < b[3]

\* kafka.errors.for_code: the exception class of a wire error code
for_code(code) ==
    CASE code = 0 -> "NoError"
      [] code = 1 -> "OffsetOutOfRangeError"
      [] code = 3 -> "UnknownTopicOrPartitionError"
      [] code = 15 -> "GroupCoordinatorNotAvailableError"
      [] code = 16 -> "NotCoordinatorForGroupError"
      [] code = 36 -> "TopicAlreadyExistsError"
      [] code = 41 -> "NotControllerError"
      [] code = 84 -> "ElectionNotNeededError"
      [] OTHER -> "UnknownError"

NoResponse == [absent |-> TRUE]

NoAnswer == [controller_id |-> NoController, version |-> <<0, 0, 0>>]

(***************************************************************************)
(* Responses the controller can give to each operation.                    *)
(***************************************************************************)
ResponsesOf(op) ==
    CASE op \in {"create_topics", "create_partitions"} ->
            {[topic_errors |-> s] : s \in SeqsUpTo(TopicCodes, MaxEntries)}
      [] op = "delete_topics" ->
            {[topic_error_codes |-> s] : s \in SeqsUpTo(TopicCodes, MaxEntries)}
      [] op = "perform_leader_election" ->
            {[error_code |-> top, replication_election_results |-> r] :
                top \in {0, 41},
                r \in UNION {Segments(s) : s \in SeqsUpTo(ElectionCodes, MaxEntries)}}

\* the names of the errors in the per-topic or per-partition entries of a
\* response, and the name of its top-level error
RECURSIVE Flatten(_)
Flatten(ss) == IF ss = <<>> THEN <<>> ELSE Head(ss) \o Flatten(Tail(ss))

EntryCodes(response) ==
    IF "topic_errors" \in DOMAIN response THEN response.topic_errors
    ELSE IF "topic_error_codes" \in DOMAIN response THEN response.topic_error_codes
    ELSE Flatten(response.replication_election_results)

\* the errors a parser passes over: NoError, and for the two-level response
\* of ElectLeaders also ElectionNotNeededError
Benign(response) ==
    IF "replication_election_results" \in DOMAIN response
    THEN {"NoError", "ElectionNotNeededError"}
    ELSE {"NoError"}

\* the error of the first entry, in response order, that is not passed over
FirstFailure(response) ==
    LET codes == EntryCodes(response)
        bad == {i \in DOMAIN codes : for_code(codes[i]) \notin Benign(response)}
    IN IF bad = {} THEN "NoError"
       ELSE for_code(codes[CHOOSE i \in bad : \A j \in bad : i <= j])

\* the error of the first entry, in response order, that is not NoError
FirstError(response) ==
    LET codes == EntryCodes(response)
        bad == {i \in DOMAIN codes : for_code(codes[i]) # "NoError"}
    IN IF bad = {} THEN "NoError"
       ELSE for_code(codes[CHOOSE i \in bad : \A j \in bad : i <= j])

Carried(response) ==
    [entries |-> {for_code(EntryCodes(response)[i]) : i \in DOMAIN EntryCodes(response)},
     first_error |-> FirstError(response),
     top |-> IF "error_code" \in DOMAIN response THEN for_code(response.error_code)
             ELSE "NoError",
     first |-> FirstFailure(response)]

(***************************************************************************)
(* _parse_topic_request_response and                                       *)
(* _parse_topic_partition_request_response: what the loop over the error   *)
(* entries decides.  "success" is return True, "refresh" is the call of    *)
(* _refresh_controller_id followed by return False, "raise" is the raise   *)
(* of the typed error.                                                     *)
(***************************************************************************)
Verdict(kind, error) == [kind |-> kind, error |-> error]

\* the parser without the test of tries: NotControllerError always refreshes
RECURSIVE ParseTopicIgnoringTries(_, _)
ParseTopicIgnoringTries(topic_error_tuples, t) ==
    IF topic_error_tuples = <<>> THEN Verdict("success", "")
    ELSE LET error_type == for_code(Head(topic_error_tuples)) IN
         IF error_type = "NotControllerError" THEN Verdict("refresh", "")
         ELSE IF error_type # "NoError" THEN Verdict("raise", error_type)
         ELSE ParseTopicIgnoringTries(Tail(topic_error_tuples), t)

RECURSIVE _parse_topic_request_response(_, _)
_parse_topic_request_response(topic_error_tuples, t) ==
    IF topic_error_tuples = <<>> THEN Verdict("success", "")
    ELSE LET error_type == for_code(Head(topic_error_tuples)) IN
         IF t # 0 /\ error_type = "NotControllerError" THEN Verdict("refresh", "")
         ELSE IF error_type # "NoError" THEN Verdict("raise", error_type)
         ELSE _parse_topic_request_response(Tail(topic_error_tuples), t)

\* the parser of partition results that passes over NoError alone
RECURSIVE ParsePartitionResultsStrict(_, _)
ParsePartitionResultsStrict(partition_results, t) ==
    IF partition_results = <<>> THEN Verdict("success", "")
    ELSE LET error_type == for_code(Head(partition_results)) IN
         IF t # 0 /\ error_type = "NotControllerError" THEN Verdict("refresh", "")
         ELSE IF error_type # "NoError" THEN Verdict("raise", error_type)
         ELSE ParsePartitionResultsStrict(Tail(partition_results), t)

RECURSIVE ParsePartitionResults(_, _)
ParsePartitionResults(partition_results, t) ==
    IF partition_results = <<>> THEN Verdict("success", "")
    ELSE LET error_type == for_code(Head(partition_results)) IN
         IF t # 0 /\ error_type = "NotControllerError" THEN Verdict("refresh", "")
         ELSE IF error_type \notin {"NoError", "ElectionNotNeededError"}
              THEN Verdict("raise", error_type)
         ELSE ParsePartitionResults(Tail(partition_results), t)

RECURSIVE ParseElectionResults(_, _)
ParseElectionResults(results, t) ==
    IF results = <<>> THEN Verdict("success", "")
    ELSE LET v == ParsePartitionResults(Head(results), t) IN
         IF v.kind # "success" THEN v
         ELSE ParseElectionResults(Tail(results), t)

_parse_topic_partition_request_response(response, t) ==
    ParseElectionResults(response.replication_election_results, t)

\* getattr(response, 'topic_errors', getattr(response, 'topic_error_codes', None))
TopicErrorTuples(response) ==
    IF "topic_errors" \in DOMAIN response THEN response.topic_errors
    ELSE response.topic_error_codes

HasTopicErrorTuples(response) ==
    "topic_errors" \in DOMAIN response \/ "topic_error_codes" \in DOMAIN response

\* the branch of _send_request_to_controller that picks the parser
ParseResponse(response, t) ==
    IF HasTopicErrorTuples(response)
    THEN _parse_topic_request_response(TopicErrorTuples(response), t)
    ELSE _parse_topic_partition_request_response(response, t)

(***************************************************************************)
(* The controller-bound call.                                              *)
(***************************************************************************)
CtlRaise(error) ==
    /\ c_pc' = "done"
    /\ c_outcome' = "raised"
    /\ c_error' = error
    /\ c_retval' = NoResponse

\* a resend that goes to the node of the first send
StaleControllerTarget == IF c_sent # <<>> THEN c_sent[1] ELSE controller_id

\* the node _send_request_to_controller addresses the request to
ControllerTarget == controller_id

\* create_topics / delete_topics / create_partitions / perform_leader_election
\* build the request and enter _send_request_to_controller
EnterControllerCall(op) ==
    /\ c_op' = op
    /\ tries' = InitialTries
    /\ c_pc' = "loop"
    /\ UNCHANGED <<controller_id, c_sent, c_response, c_history, c_refreshes,
                   md_sends, md_first, md_last, elapsed, refreshed_id, c_outcome, c_error,
                   c_retval>>

StartControllerCall ==
    /\ c_pc = "idle"
    /\ \E op \in ControllerOps : EnterControllerCall(op)

\* one pass of "while tries": tries -= 1, then send_request to the cached
\* controller: await_ready may raise, otherwise the request is on the wire
CtlSend ==
    /\ c_pc = "loop"
    /\ tries # 0
    /\ tries' = tries - 1
    /\ \E ready \in BOOLEAN :
          IF ready
          THEN /\ c_sent' = Append(c_sent, ControllerTarget)
               /\ c_pc' = "await"
               /\ UNCHANGED <<c_outcome, c_error, c_retval>>
          ELSE /\ CtlRaise("KafkaConnectionError")
               /\ UNCHANGED c_sent
    /\ md_last' = NoAnswer
    /\ UNCHANGED <<controller_id, c_op, c_response, c_history, c_refreshes,
                   md_sends, md_first, elapsed, refreshed_id>>

\* the value _send_request_to_controller returns on success
ReturnedResponse(response) == response

\* _wait_for_futures on the single future, then the parse of the response
CtlReceive ==
    /\ c_pc = "await"
    /\ \/ /\ CtlRaise("FutureFailed")
          /\ UNCHANGED <<c_response, c_history, c_refreshes>>
       \/ \E response \in ResponsesOf(c_op) :
            LET v == ParseResponse(response, tries)
            IN \* a response that leads to a resend is not read again
               /\ c_response' = IF v.kind = "refresh" THEN NoResponse ELSE response
               /\ c_history' = Append(c_history, Carried(response))
               /\ CASE v.kind = "success" ->
                         /\ c_pc' = "done"
                         /\ c_outcome' = "returned"
                         /\ c_retval' = ReturnedResponse(response)
                         /\ UNCHANGED <<c_error, c_refreshes>>
                    [] v.kind = "refresh" ->
                         /\ c_pc' = "refresh_start"
                         /\ c_refreshes' = c_refreshes + 1
                         /\ UNCHANGED <<c_outcome, c_error, c_retval>>
                    [] v.kind = "raise" ->
                         /\ CtlRaise(v.error)
                         /\ UNCHANGED c_refreshes
    /\ UNCHANGED <<controller_id, c_op, tries, c_sent, md_sends, md_first, md_last,
                   elapsed, refreshed_id>>

\* _refresh_controller_id up to its loop: the Metadata version and timeout_at
RefreshStart ==
    /\ c_pc = "refresh_start"
    /\ \E version \in 0 .. MetadataMaxVersion :
          IF version = 0
          THEN /\ CtlRaise("UnrecognizedBrokerVersion")
               /\ UNCHANGED elapsed
          ELSE /\ c_pc' = "refresh"
               /\ elapsed' = 0
               /\ UNCHANGED <<c_outcome, c_error, c_retval>>
    /\ UNCHANGED <<controller_id, c_op, tries, c_sent, c_response, c_history,
                   c_refreshes, md_sends, md_first, md_last, refreshed_id>>

\* seconds a send_request can take: none, or the whole timeout
SendDurations == {0, RefreshTimeoutMs \div 1000}

\* a retry that takes no time: the send returns at once and nothing sleeps
ClockUnmoved(now, d) == now

\* seconds since timeout_at was computed, after a send_request that took d
\* seconds and time.sleep(1); past the deadline the clock is not followed
ClockAfterRetry(now, d) == Min(now + d + 1, RefreshTimeoutMs \div 1000)

\* a version check that accepts every broker
AnyVersionSupported(controller_version) == FALSE

\* if controller_version < (0, 10, 0)
TooOld(controller_version) == TupleLess(controller_version, <<0, 10, 0>>)

\* the id a refresh caches once the controller's version is accepted
CachedControllerId(id) == id

\* where _send_request_to_controller goes once the refresh has returned and
\* the parser has returned False: the loop test "while tries"
AfterRefresh ==
    IF tries # 0
    THEN /\ c_pc' = "loop"
         /\ UNCHANGED <<c_outcome, c_error, c_retval>>
    ELSE CtlRaise("RuntimeError")

\* one pass of the loop of _refresh_controller_id
RefreshIterate ==
    /\ c_pc = "refresh"
    /\ IF ~(elapsed < RefreshTimeoutMs \div 1000)
       THEN /\ CtlRaise("NodeNotReadyError")
            /\ UNCHANGED <<controller_id, refreshed_id, md_sends, md_first, md_last, elapsed>>
       ELSE \E d \in SendDurations :
            \/ \* await_ready raises: nothing is sent
               /\ CtlRaise("KafkaConnectionError")
               /\ UNCHANGED <<controller_id, refreshed_id, md_sends, md_first, md_last, elapsed>>
            \/ \* the request is sent and its future fails
               /\ md_sends' = Min(md_sends + 1, MaxCount)
               /\ CtlRaise("FutureFailed")
               /\ UNCHANGED <<controller_id, refreshed_id, md_first, md_last, elapsed>>
            \/ \E id \in Nodes \cup {NoController}, controller_version \in BrokerVersions :
                 /\ md_sends' = Min(md_sends + 1, MaxCount)
                 /\ md_first' = IF md_sends = 0
                                THEN [controller_id |-> id, version |-> controller_version]
                                ELSE md_first
                 /\ md_last' = IF id = -1 THEN NoAnswer
                               ELSE [controller_id |-> id, version |-> controller_version]
                 /\ IF id = -1
                    THEN \* time.sleep(1); continue
                         /\ elapsed' = ClockAfterRetry(elapsed, d)
                         /\ UNCHANGED <<controller_id, refreshed_id, c_pc, c_outcome,
                                        c_error, c_retval>>
                    ELSE IF TooOld(controller_version)
                    THEN /\ CtlRaise("IncompatibleBrokerVersion")
                         /\ UNCHANGED <<controller_id, refreshed_id, elapsed>>
                    ELSE /\ controller_id' = CachedControllerId(id)
                         /\ refreshed_id' = id
                         /\ AfterRefresh
                         /\ elapsed' = 0
    /\ UNCHANGED <<c_op, tries, c_sent, c_response, c_history, c_refreshes>>

\* the caller has the result; the next admin call can start
CtlFinish ==
    /\ c_pc = "done"
    /\ c_pc' = "idle"
    /\ c_op' = "none"
    /\ tries' = 0
    /\ c_sent' = <<>>
    /\ c_response' = NoResponse
    /\ c_history' = <<>>
    /\ c_refreshes' = 0
    /\ md_sends' = 0
    /\ md_first' = NoAnswer
    /\ md_last' = NoAnswer
    /\ elapsed' = 0
    /\ c_outcome' = "none"
    /\ c_error' = ""
    /\ c_retval' = NoResponse
    /\ UNCHANGED <<controller_id, refreshed_id>>

CtlInit ==
    /\ controller_id \in Nodes
    /\ refreshed_id = controller_id
    /\ c_pc = "idle"
    /\ c_op = "none"
    /\ tries = 0
    /\ c_sent = <<>>
    /\ c_response = NoResponse
    /\ c_history = <<>>
    /\ c_refreshes = 0
    /\ md_sends = 0
    /\ md_first = NoAnswer
    /\ md_last = NoAnswer
    /\ elapsed = 0
    /\ c_outcome = "none"
    /\ c_error = ""
    /\ c_retval = NoResponse

(***************************************************************************)
(* The fan-out executor: send_requests and _wait_for_futures, and          *)
(* _find_coordinator_ids on top of them.                                   *)
(***************************************************************************)
Groups == {"g1", "g2"}
Payloads == {"a", "b"}

\* error codes of a FindCoordinatorResponse
CoordinatorCodes == {0, 15}

Range(s) == {s[i] : i \in DOMAIN s}

\* _find_coordinator_id_request: the request for one group at the negotiated
\* version; from v1 on it carries the coordinator type 0
_find_coordinator_id_request(group_id, version) ==
    IF version <= 0
    THEN [api |-> "FindCoordinatorRequest", version |-> version, group_id |-> group_id]
    ELSE [api |-> "FindCoordinatorRequest", version |-> version, group_id |-> group_id,
          coordinator_type |-> 0]

\* requests = [(self._find_coordinator_id_request(group_id), None) for group_id in group_ids]
FindCoordinatorRequests(group_ids, version) ==
    [i \in DOMAIN group_ids |->
        [request |-> _find_coordinator_id_request(group_ids[i], version), node_id |-> None]]

\* what a broker can answer to a request; the response carries the
\* correlation id of the request it answers
ResponsesTo(sent) ==
    IF sent.request.api = "FindCoordinatorRequest"
    THEN {[correlation_id |-> sent.correlation_id, error_code |-> e, coordinator_id |-> n] :
             e \in {0}, n \in Nodes}
         \cup {[correlation_id |-> sent.correlation_id, error_code |-> e,
                coordinator_id |-> -1] : e \in CoordinatorCodes \ {0}}
    ELSE {[correlation_id |-> sent.correlation_id, payload |-> x] : x \in Payloads}

\* _find_coordinator_id_process_response: the raise, or the coordinator id
FindCoordinatorRaises(response) == for_code(response.error_code) # "NoError"

_find_coordinator_id_process_response(response) == response.coordinator_id

\* response_fn of the running operation: the identity by default
ResponseFnRaises(op, response) ==
    op = "_find_coordinator_ids" /\ FindCoordinatorRaises(response)

response_fn(op, response) ==
    IF op = "_find_coordinator_ids"
    THEN _find_coordinator_id_process_response(response)
    ELSE response

\* the responses in the order the futures completed, not in input order
ResultInCompletionOrder(op, futures) ==
    [k \in DOMAIN futures |-> response_fn(op, futures[f_order[k]].value)]

\* [response_fn(future.value) for future in futures]
SendRequestsResult(op, futures) ==
    [k \in DOMAIN futures |-> response_fn(op, futures[k].value)]

\* dict(zip(group_ids, coordinator_ids)): a later pair replaces an earlier one
\* with the same key
DictZip(keys, values) ==
    LET n == Min(Len(keys), Len(values)) IN
    [g \in {keys[i] : i \in 1 .. n} |->
        values[CHOOSE i \in 1 .. n : keys[i] = g /\ \A j \in 1 .. n : keys[j] = g => j <= i]]

\* _send_request_to_node: the future it returns is failed when await_ready
\* raises KafkaConnectionError, and the pending future of send otherwise.
\* The class defines it; neither send_request nor send_requests calls it.
_send_request_to_node(ready) == IF ready THEN "pending" ELSE "failed"

FoRaise(error, where) ==
    /\ f_pc' = "done"
    /\ f_outcome' = "raised"
    /\ f_error' = error
    /\ f_raised_in' = where
    /\ f_result' = <<>>

\* send_requests called with a list of (request, node_id) pairs and the
\* default response_fn
StartSendRequests ==
    /\ f_pc = "idle"
    /\ \E input \in SeqsUpTo([request : {[api |-> "Request", payload |-> x] : x \in Payloads},
                              node_id : Nodes \cup {None}], MaxRequests) :
          f_input' = input
    /\ f_op' = "send_requests"
    /\ f_pc' = "submit"
    /\ UNCHANGED <<f_version, f_group_ids, f_futures, f_i, f_order, f_ready_failed,
                   f_outcome, f_error, f_raised_in, f_result>>

\* _find_coordinator_ids(group_ids) up to its call of send_requests
StartFindCoordinatorIds ==
    /\ f_pc = "idle"
    /\ \E group_ids \in SeqsUpTo(Groups, MaxRequests),
          version \in 0 .. FindCoordinatorMaxVersion :
          /\ f_group_ids' = group_ids
          /\ f_version' = version
          /\ f_input' = FindCoordinatorRequests(group_ids, version)
    /\ f_op' = "_find_coordinator_ids"
    /\ f_pc' = "submit"
    /\ UNCHANGED <<f_futures, f_i, f_order, f_ready_failed, f_outcome, f_error,
                   f_raised_in, f_result>>

\* one pass of the for loop of send_requests: least_loaded_node for a missing
\* node id, await_ready (which may raise), send; after the last pass the
\* call enters _wait_for_futures
Submit ==
    /\ f_pc = "submit"
    /\ LET k == Len(f_futures) + 1 IN
       IF k > Len(f_input)
       THEN /\ f_pc' = "wait"
            /\ f_i' = 0
            /\ UNCHANGED <<f_futures, f_ready_failed, f_outcome, f_error, f_raised_in,
                           f_result>>
       ELSE \E least_loaded_node \in Nodes, ready \in BOOLEAN :
            LET node_id == IF f_input[k].node_id = None THEN least_loaded_node
                           ELSE f_input[k].node_id
            IN \* a choice of least_loaded_node that is not used changes nothing
               /\ f_input[k].node_id # None => least_loaded_node = 1
               /\ IF ready
                  THEN /\ f_futures' = Append(f_futures,
                              [node_id |-> node_id, request |-> f_input[k].request,
                               correlation_id |-> k, state |-> "pending",
                               value |-> NoResponse])
                       /\ UNCHANGED <<f_pc, f_ready_failed, f_outcome, f_error,
                                      f_raised_in, f_result>>
                  ELSE /\ f_ready_failed' = TRUE
                       /\ FoRaise("KafkaConnectionError", "submit")
                       /\ UNCHANGED f_futures
               /\ UNCHANGED f_i
    /\ UNCHANGED <<f_op, f_version, f_input, f_group_ids, f_order>>

\* the broker client, inside await_ready or poll, completes a pending future:
\* with the response to its request, or with a failure
Complete ==
    /\ f_pc \in {"submit", "wait"}
    /\ \E k \in DOMAIN f_futures :
          /\ f_futures[k].state = "pending"
          /\ \/ \E response \in ResponsesTo(f_futures[k]) :
                  f_futures' = [f_futures EXCEPT ![k].state = "succeeded",
                                                 ![k].value = response]
             \/ f_futures' = [f_futures EXCEPT ![k].state = "failed"]
          /\ f_order' = Append(f_order, k)
    /\ UNCHANGED <<f_pc, f_op, f_version, f_input, f_group_ids, f_i, f_ready_failed,
                   f_outcome, f_error, f_raised_in, f_result>>

\* the while test of _wait_for_futures; when it ends the loop, send_requests
\* builds its result, and _find_coordinator_ids its dict
WaitTest ==
    /\ f_pc = "wait"
    /\ f_i = 0
    /\ IF \A k \in DOMAIN f_futures : f_futures[k].state = "succeeded"
       THEN IF \E k \in DOMAIN f_futures : ResponseFnRaises(f_op, f_futures[k].value)
            THEN LET k == CHOOSE k \in DOMAIN f_futures :
                             /\ ResponseFnRaises(f_op, f_futures[k].value)
                             /\ \A j \in 1 .. k - 1 :
                                    ~ResponseFnRaises(f_op, f_futures[j].value)
                 IN /\ FoRaise(for_code(f_futures[k].value.error_code), "response_fn")
                    /\ UNCHANGED f_i
            ELSE /\ f_pc' = "done"
                 /\ f_outcome' = "returned"
                 /\ f_result' = IF f_op = "_find_coordinator_ids"
                                THEN DictZip(f_group_ids, SendRequestsResult(f_op, f_futures))
                                ELSE SendRequestsResult(f_op, f_futures)
                 /\ UNCHANGED <<f_i, f_error, f_raised_in>>
       ELSE /\ f_i' = 1
            /\ UNCHANGED <<f_pc, f_outcome, f_error, f_raised_in, f_result>>
    /\ UNCHANGED <<f_op, f_version, f_input, f_group_ids, f_futures, f_order,
                   f_ready_failed>>

\* one pass of the for loop of _wait_for_futures: poll(future=future) returns
\* once the future is done; a failed future raises its exception
Poll ==
    /\ f_pc = "wait"
    /\ f_i \in DOMAIN f_futures
    /\ f_futures[f_i].state # "pending"
    /\ IF f_futures[f_i].state = "failed"
       THEN /\ FoRaise("FutureFailed", "wait")
            /\ UNCHANGED f_i
       ELSE /\ f_i' = IF f_i = Len(f_futures) THEN 0 ELSE f_i + 1
            /\ UNCHANGED <<f_pc, f_outcome, f_error, f_raised_in, f_result>>
    /\ UNCHANGED <<f_op, f_version, f_input, f_group_ids, f_futures, f_order,
                   f_ready_failed>>

\* the caller has the result; the next admin call can start
FoFinish ==
    /\ f_pc = "done"
    /\ f_pc' = "idle"
    /\ f_op' = "none"
    /\ f_version' = 0
    /\ f_input' = <<>>
    /\ f_group_ids' = <<>>
    /\ f_futures' = <<>>
    /\ f_i' = 0
    /\ f_order' = <<>>
    /\ f_ready_failed' = FALSE
    /\ f_outcome' = "none"
    /\ f_error' = ""
    /\ f_raised_in' = ""
    /\ f_result' = <<>>

FoInit ==
    /\ f_pc = "idle"
    /\ f_op = "none"
    /\ f_version = 0
    /\ f_input = <<>>
    /\ f_group_ids = <<>>
    /\ f_futures = <<>>
    /\ f_i = 0
    /\ f_order = <<>>
    /\ f_ready_failed = FALSE
    /\ f_outcome = "none"
    /\ f_error = ""
    /\ f_raised_in = ""
    /\ f_result = <<>>

(***************************************************************************)
(* delete_records: the leader lookup, one request per leader, and the      *)
(* interpretation of the responses.                                        *)
(***************************************************************************)
TP(topic, partition) == [topic |-> topic, partition |-> partition]

\* the topic partitions of the cluster, in the order a Metadata response
\* lists them
TPSeq == <<TP("t", 0), TP("t", 1), TP("u", 0)>>
AllTPs == Range(TPSeq)

\* offsets a caller asks to delete up to
Offsets == {100, 200}

\* error codes of a partition in a DeleteRecordsResponse
DeleteRecordsCodes == {0, 1, 3}

\* the members of a set of topic partitions, as a list
ListOf(partitions) == SelectSeq(TPSeq, LAMBDA tp : tp \in partitions)

\* the Metadata responses for a set of existing partitions and their
\* leaders: one entry per partition, topic after topic
MetadataResponses ==
    {[k \in DOMAIN ListOf(exists) |->
        [topic |-> ListOf(exists)[k].topic, partition |-> ListOf(exists)[k].partition,
         leader |-> leader[ListOf(exists)[k]]]] :
        exists \in SUBSET AllTPs, leader \in [AllTPs -> Nodes \cup {-1}]}

\* d[key].append(value) on a defaultdict(list) that keeps insertion order
DictAppend(d, key, value) ==
    IF \E k \in DOMAIN d : d[k].key = key
    THEN [k \in DOMAIN d |->
            IF d[k].key = key THEN [key |-> key, values |-> Append(d[k].values, value)]
            ELSE d[k]]
    ELSE Append(d, [key |-> key, values |-> <<value>>])

\* the loops of _get_leader_for_partitions over the Metadata response
RECURSIVE LeaderToPartitions(_, _, _)
LeaderToPartitions(metadata, partitions, acc) ==
    IF metadata = <<>> THEN acc
    ELSE LET e == Head(metadata)
             t2p == TP(e.topic, e.partition)
         IN LeaderToPartitions(Tail(metadata), partitions,
                IF t2p \in partitions THEN DictAppend(acc, e.leader, t2p) ELSE acc)

\* a lookup that takes every requested partition as found
AssumeAllValid(metadata, partitions) == partitions

\* valid_partitions of _get_leader_for_partitions
ValidPartitions(metadata, partitions) ==
    {tp \in partitions :
        \E k \in DOMAIN metadata : TP(metadata[k].topic, metadata[k].partition) = tp}

\* topic2partitions of delete_records: the partitions of one leader by topic
RECURSIVE TopicToPartitions(_, _)
TopicToPartitions(partitions, acc) ==
    IF partitions = <<>> THEN acc
    ELSE TopicToPartitions(Tail(partitions),
            DictAppend(acc, Head(partitions).topic, Head(partitions)))

\* a request that lists, under every topic, all partitions of the leader
RequestWithLeaderPartitions(partitions, records, timeout_ms) ==
    LET topic2partitions == TopicToPartitions(partitions, <<>>) IN
    [timeout_ms |-> timeout_ms,
     topics |->
        [k \in DOMAIN topic2partitions |->
            [topic |-> topic2partitions[k].key,
             partitions |->
                [j \in DOMAIN partitions |->
                    <<partitions[j].partition, records[partitions[j]]>>]]]]

\* DeleteRecordsRequest[version](topics=[(topic, [(tp.partition,
\* records_to_delete[tp]) for tp in partitions]) for topic, partitions in
\* topic2partitions.items()], timeout_ms=timeout_ms)
DeleteRecordsRequestFor(partitions, records, timeout_ms) ==
    LET topic2partitions == TopicToPartitions(partitions, <<>>) IN
    [timeout_ms |-> timeout_ms,
     topics |->
        [k \in DOMAIN topic2partitions |->
            [topic |-> topic2partitions[k].key,
             partitions |->
                [j \in DOMAIN topic2partitions[k].values |->
                    <<topic2partitions[k].values[j].partition,
                      records[topic2partitions[k].values[j]]>>]]]]

\* the responses a broker can give to a DeleteRecords request: the topics and
\* partitions of the request, each partition with an error code and, when the
\* code is 0, the requested offset as low watermark
PartitionResults(entries) ==
    {[j \in DOMAIN entries |->
        [partition_index |-> entries[j][1], error_code |-> codes[j],
         low_watermark |-> IF codes[j] = 0 THEN entries[j][2] ELSE -1]] :
        codes \in [DOMAIN entries -> DeleteRecordsCodes]}

RECURSIVE TopicResults(_)
TopicResults(topics) ==
    IF topics = <<>> THEN {<<>>}
    ELSE {<<[name |-> Head(topics).topic, partitions |-> p]>> \o rest :
              p \in PartitionResults(Head(topics).partitions),
              rest \in TopicResults(Tail(topics))}

DeleteRecordsResponses(request) == {[topics |-> t] : t \in TopicResults(request.topics)}

\* the entries of the responses in the order the loops of delete_records
\* visit them: the topic partition and its partition result
RECURSIVE TopicEntries(_)
TopicEntries(topics) ==
    IF topics = <<>> THEN <<>>
    ELSE [j \in DOMAIN Head(topics).partitions |->
            [tp |-> TP(Head(topics).name, Head(topics).partitions[j].partition_index),
             partition |-> Head(topics).partitions[j]]]
         \o TopicEntries(Tail(topics))

RECURSIVE ResponseEntries(_)
ResponseEntries(responses) ==
    IF responses = <<>> THEN <<>>
    ELSE TopicEntries(Head(responses).topics) \o ResponseEntries(Tail(responses))

\* partition2result: the latest entry of each topic partition
PartitionToResult(entries) ==
    [tp \in {entries[k].tp : k \in DOMAIN entries} |->
        entries[CHOOSE k \in DOMAIN entries :
                    entries[k].tp = tp /\ \A j \in DOMAIN entries :
                                              entries[j].tp = tp => j <= k].partition]

\* partition2error: the latest non-zero error code of each topic partition
\* that has one
PartitionToError(entries) ==
    LET bad == {k \in DOMAIN entries : entries[k].partition.error_code # 0} IN
    [tp \in {entries[k].tp : k \in bad} |->
        entries[CHOOSE k \in bad :
                    entries[k].tp = tp /\ \A j \in bad :
                                              entries[j].tp = tp => j <= k]
            .partition.error_code]

Returned(result) ==
    [outcome |-> "returned", error |-> "", named |-> {}, result |-> result]

Raised(error, named) ==
    [outcome |-> "raised", error |-> error, named |-> named, result |-> <<>>]

\* an interpretation that raises the typed error of one failed partition
\* however many failed
RaiseOneTypedError(partition2result, partition2error) ==
    IF DOMAIN partition2error # {}
    THEN LET key == CHOOSE tp \in DOMAIN partition2error : TRUE IN
         Raised(for_code(partition2error[key]), {<<key.topic, key.partition>>})
    ELSE Returned(partition2result)

\* the end of delete_records: the typed error of the only failed partition,
\* BrokerResponseError naming every failed partition with its error name, or
\* partition2result
InterpretDeleteRecords(partition2result, partition2error) ==
    IF DOMAIN partition2error # {}
    THEN IF Cardinality(DOMAIN partition2error) = 1
         THEN LET key == CHOOSE tp \in DOMAIN partition2error : TRUE IN
              Raised(for_code(partition2error[key]), {<<key.topic, key.partition>>})
         ELSE Raised("BrokerResponseError",
                     {<<tp.topic, tp.partition, for_code(partition2error[tp])>> :
                         tp \in DOMAIN partition2error})
    ELSE Returned(partition2result)

DrEnd(verdict, stage) ==
    /\ d_pc' = "done"
    /\ d_stage' = stage
    /\ d_verdict' = verdict

\* delete_records(records_to_delete, timeout_ms=..., partition_leader_id=...)
\* up to the leader lookup
DeleteRecordsCall(timeouts) ==
    /\ d_pc = "idle"
    /\ \E partitions \in SUBSET AllTPs :
         \E records \in [partitions -> Offsets], hint \in Nodes \cup {None},
            timeout_ms \in timeouts :
          /\ records_to_delete' = records
          /\ partition_leader_id' = hint
          /\ d_timeout_ms' = timeout_ms
          /\ IF hint = None
             THEN /\ d_pc' = "leaders"
                  /\ UNCHANGED leader2partitions
             ELSE /\ d_pc' = "send"
                  /\ leader2partitions' =
                        <<[key |-> hint, values |-> ListOf(partitions)]>>
    /\ d_k' = 1
    /\ UNCHANGED <<d_metadata, d_requests, d_responses, d_stage, d_verdict>>

\* delete_records without timeout_ms, and with one
StartDeleteRecords == DeleteRecordsCall({NoTimeout})

StartDeleteRecordsTimed == DeleteRecordsCall(TimeoutArgs)

\* _get_leader_for_partitions: one Metadata request to a least-loaded node,
\* then the grouping of the requested partitions by leader
GetLeaderForPartitions ==
    /\ d_pc = "leaders"
    /\ \/ /\ DrEnd(Raised("KafkaConnectionError", {}), "leaders")
          /\ UNCHANGED <<d_metadata, leader2partitions>>
       \/ /\ DrEnd(Raised("FutureFailed", {}), "leaders")
          /\ UNCHANGED <<d_metadata, leader2partitions>>
       \/ \E metadata \in MetadataResponses :
            LET partitions == DOMAIN records_to_delete
                valid_partitions == ValidPartitions(metadata, partitions)
            IN /\ d_metadata' = metadata
               /\ IF Cardinality(partitions) # Cardinality(valid_partitions)
                  THEN /\ DrEnd(Raised("UnknownTopicOrPartitionError",
                                       {<<tp.topic, tp.partition>> :
                                           tp \in partitions \ valid_partitions}),
                                "leaders")
                       /\ UNCHANGED leader2partitions
                  ELSE /\ leader2partitions' =
                             LeaderToPartitions(metadata, partitions, <<>>)
                       /\ d_pc' = "send"
                       /\ UNCHANGED <<d_stage, d_verdict>>
    /\ UNCHANGED <<records_to_delete, partition_leader_id, d_timeout_ms, d_k, d_requests, d_responses>>

\* one pass of the loop over leader2partitions up to the send: the request of
\* the leader is built and send_request is called with node_id=leader
DrSend ==
    /\ d_pc = "send"
    /\ d_k \in DOMAIN leader2partitions
    /\ LET leader == leader2partitions[d_k].key
           request == DeleteRecordsRequestFor(leader2partitions[d_k].values,
                                              records_to_delete,
                                              _validate_timeout(d_timeout_ms))
       IN \E ready \in BOOLEAN :
            IF ready
            THEN /\ d_requests' = Append(d_requests,
                                         [node_id |-> leader, request |-> request])
                 /\ d_pc' = "await"
                 /\ UNCHANGED <<d_stage, d_verdict>>
            ELSE /\ DrEnd(Raised("KafkaConnectionError", {}), "send")
                 /\ UNCHANGED d_requests
    /\ UNCHANGED <<records_to_delete, partition_leader_id, d_timeout_ms, leader2partitions, d_k,
                   d_metadata, d_responses>>

\* the rest of the pass: _wait_for_futures on the single future, then
\* responses.append(response.to_object())
DrReceive ==
    /\ d_pc = "await"
    /\ \/ /\ DrEnd(Raised("FutureFailed", {}), "send")
          /\ UNCHANGED <<d_responses, d_k>>
       \/ \E response \in DeleteRecordsResponses(d_requests[Len(d_requests)].request) :
            /\ d_responses' = Append(d_responses, response)
            /\ d_k' = d_k + 1
            /\ d_pc' = "send"
            /\ UNCHANGED <<d_stage, d_verdict>>
    /\ UNCHANGED <<records_to_delete, partition_leader_id, d_timeout_ms, leader2partitions,
                   d_metadata, d_requests>>

\* after the loop: partition2result, partition2error, and the return or raise
DrInterpret ==
    /\ d_pc = "send"
    /\ d_k > Len(leader2partitions)
    /\ LET entries == ResponseEntries(d_responses) IN
       DrEnd(InterpretDeleteRecords(PartitionToResult(entries), PartitionToError(entries)),
             "interpret")
    /\ UNCHANGED <<records_to_delete, partition_leader_id, d_timeout_ms, leader2partitions, d_k,
                   d_metadata, d_requests, d_responses>>

NoVerdict == [outcome |-> "none", error |-> "", named |-> {}, result |-> <<>>]

\* the caller has the result; the next admin call can start
DrFinish ==
    /\ d_pc = "done"
    /\ d_pc' = "idle"
    /\ records_to_delete' = <<>>
    /\ partition_leader_id' = None
    /\ d_timeout_ms' = NoTimeout
    /\ leader2partitions' = <<>>
    /\ d_k' = 0
    /\ d_metadata' = <<>>
    /\ d_requests' = <<>>
    /\ d_responses' = <<>>
    /\ d_stage' = ""
    /\ d_verdict' = NoVerdict

DrInit ==
    /\ d_pc = "idle"
    /\ records_to_delete = <<>>
    /\ partition_leader_id = None
    /\ d_timeout_ms = NoTimeout
    /\ leader2partitions = <<>>
    /\ d_k = 0
    /\ d_metadata = <<>>
    /\ d_requests = <<>>
    /\ d_responses = <<>>
    /\ d_stage = ""
    /\ d_verdict = NoVerdict

(***************************************************************************)
(* The operations of the facade that build their requests from their       *)
(* arguments and the negotiated version and hand them to send_request,     *)
(* send_requests or _send_request_to_controller.                           *)
(***************************************************************************)
Levels == 0 .. MaxLevel

\* self._client.api_version(operation, max_version=...): the highest version
\* that the client and the broker it negotiated with have in common
api_version(max_version, cluster) == Min(max_version, cluster.negotiated)

\* a broker of level l supports the versions 0 .. l of every API; in a
\* cluster of one level the client has negotiated that level
HomogeneousClusters ==
    {[negotiated |-> l, broker_level |-> [b \in Nodes |-> l]] : l \in Levels}

\* a cluster of brokers of several levels; the client has negotiated with
\* one of them
MixedClusters ==
    {[negotiated |-> levels[b], broker_level |-> levels] :
        levels \in [Nodes -> Levels], b \in Nodes}

NoCluster == [negotiated |-> 0, broker_level |-> <<>>]

\* what the building part of an operation yields: an exception, or the list
\* of (request, node_id) it goes on with
BuildRaises(error) == [raised |-> error, requests |-> <<>>]

Built(requests) == [raised |-> "", requests |-> requests]

To(request, node_id) == [request |-> request, node_id |-> node_id]

\* an optional list argument: None, or a list
NoneList == [none |-> TRUE, items |-> <<>>]

ListArg(items) == [none |-> FALSE, items |-> items]

\* ConfigResource(resource_type, name, configs): configs is None or a dict,
\* kept as the list of its keys
ConfigResource(resource_type, name, configs) ==
    [resource_type |-> resource_type, name |-> name, configs |-> configs]

ConfigResources ==
    {ConfigResource("BROKER", "1", NoneList), ConfigResource("BROKER", "2", NoneList),
     ConfigResource("BROKER", "x", NoneList), ConfigResource("TOPIC", "t", NoneList),
     ConfigResource("TOPIC", "u", NoneList)}

\* resources with configs None, configs {} and configs {"k": ...}
KeyedConfigResources ==
    {ConfigResource(type, name, configs) :
        type \in {"TOPIC"}, name \in {"t"},
        configs \in {NoneList, ListArg(<<>>), ListArg(<<"k">>), ListArg(<<"k", "l">>)}}
    \cup {ConfigResource("BROKER", "1", NoneList), ConfigResource("BROKER", "1", ListArg(<<>>))}

\* int(broker_resource[1]); -1 stands for the ValueError of a name that is
\* not the decimal form of an integer
IntOfName(name) ==
    CASE name = "1" -> 1
      [] name = "2" -> 2
      [] name = "3" -> 3
      [] OTHER -> -1

\* _convert_describe_config_resource_request
_convert_describe_config_resource_request(config_resource) ==
    <<config_resource.resource_type,
      config_resource.name,
      \* [keys] if config_resource.configs else None: None and {} are both false
      IF ~config_resource.configs.none /\ config_resource.configs.items # <<>>
      THEN ListArg(config_resource.configs.items)
      ELSE NoneList>>

\* DescribeConfigsRequest[version](resources=..., include_synonyms=...)
DescribeConfigsRequest(version, resources, include_synonyms) ==
    IF version = 0
    THEN [api |-> "DescribeConfigsRequest", version |-> version, resources |-> resources]
    ELSE [api |-> "DescribeConfigsRequest", version |-> version, resources |-> resources,
          include_synonyms |-> include_synonyms]

\* a describe_configs that puts every resource into the one shared request
DescribeConfigsInOneRequest(config_resources, include_synonyms, version) ==
    LET converted == [k \in DOMAIN config_resources |->
                         _convert_describe_config_resource_request(config_resources[k])]
    IN IF include_synonyms /\ version = 0
       THEN BuildRaises("IncompatibleBrokerVersion")
       ELSE Built(IF Len(converted) > 0
                  THEN <<To(DescribeConfigsRequest(version, converted, include_synonyms),
                            None)>>
                  ELSE <<>>)

\* describe_configs up to its call of send_requests
DescribeConfigsBuild(config_resources, include_synonyms, version) ==
    LET converted == [k \in DOMAIN config_resources |->
                         _convert_describe_config_resource_request(config_resources[k])]
        broker_resources == SelectSeq(converted, LAMBDA r : r[1] = "BROKER")
        topic_resources == SelectSeq(converted, LAMBDA r : r[1] # "BROKER")
    IN IF include_synonyms /\ version = 0
       THEN BuildRaises("IncompatibleBrokerVersion")
       ELSE IF \E k \in DOMAIN broker_resources : IntOfName(broker_resources[k][2]) = -1
       THEN BuildRaises("ValueError")
       ELSE Built([k \in DOMAIN broker_resources |->
                      To(DescribeConfigsRequest(version, <<broker_resources[k]>>,
                                                include_synonyms),
                         IntOfName(broker_resources[k][2]))]
                  \o (IF Len(topic_resources) > 0
                      THEN <<To(DescribeConfigsRequest(version, topic_resources,
                                                       include_synonyms), None)>>
                      ELSE <<>>))

\* the topic lists a caller passes to _get_cluster_metadata; None is all topics
TopicLists == {NoneList, ListArg(<<>>), ListArg(<<"t">>), ListArg(<<"t", "u">>)}

\* MetadataRequest[version](topics=..., ...)
MetadataRequestFor(version, topics, auto_topic_creation) ==
    IF version <= 3
    THEN [api |-> "MetadataRequest", version |-> version, topics |-> topics]
    ELSE IF version <= 7
    THEN [api |-> "MetadataRequest", version |-> version, topics |-> topics,
          allow_auto_topic_creation |-> auto_topic_creation]
    ELSE [api |-> "MetadataRequest", version |-> version, topics |-> topics,
          allow_auto_topic_creation |-> auto_topic_creation,
          include_cluster_authorized_operations |-> TRUE,
          include_topic_authorized_operations |-> TRUE]

\* a _get_cluster_metadata that asks brokers of every version for topic
\* creation
MetadataBuildUngated(topics, auto_topic_creation, version) ==
    Built(<<To([api |-> "MetadataRequest", version |-> version, topics |-> topics,
                allow_auto_topic_creation |-> auto_topic_creation], None)>>)

\* _get_cluster_metadata up to its call of send_request
MetadataBuild(topics, auto_topic_creation, version) ==
    IF version <= 3 /\ auto_topic_creation
    THEN BuildRaises("IncompatibleBrokerVersion")
    ELSE Built(<<To(MetadataRequestFor(version, topics, auto_topic_creation), None)>>)

\* d[key] = value on a dict that keeps insertion order
DictSet(d, key, value) ==
    IF \E k \in DOMAIN d : d[k].key = key
    THEN [k \in DOMAIN d |-> IF d[k].key = key THEN [key |-> key, value |-> value] ELSE d[k]]
    ELSE Append(d, [key |-> key, value |-> value])

\* dict(zip(keys, values)).items()
RECURSIVE DictItems(_, _, _)
DictItems(keys, values, acc) ==
    IF keys = <<>> \/ values = <<>> THEN acc
    ELSE DictItems(Tail(keys), Tail(values), DictSet(acc, Head(keys), Head(values)))

\* {group_id: group_coordinator_id for group_id in group_ids}.items()
SameCoordinator(group_ids, group_coordinator_id) ==
    DictItems(group_ids, [k \in DOMAIN group_ids |-> group_coordinator_id], <<>>)

\* the group id lists a caller passes: none, one, two in either order, and
\* one group listed twice
GroupIdLists == {<<>>, <<"g1">>, <<"g1", "g2">>, <<"g2", "g1">>, <<"g1", "g1">>}

\* _describe_consumer_groups_request
_describe_consumer_groups_request(group_id, version) ==
    IF version <= 2
    THEN [api |-> "DescribeGroupsRequest", version |-> version, groups |-> <<group_id>>]
    ELSE [api |-> "DescribeGroupsRequest", version |-> version, groups |-> <<group_id>>,
          include_authorized_operations |-> TRUE]

\* requests of describe_consumer_groups: one per item of groups_coordinators
DescribeGroupsRequests(groups_coordinators, version) ==
    [k \in DOMAIN groups_coordinators |->
        To(_describe_consumer_groups_request(groups_coordinators[k].key, version),
           groups_coordinators[k].value)]

\* coordinators_groups of delete_consumer_groups from the coordinator of each
\* group
RECURSIVE CoordinatorsGroups(_, _)
CoordinatorsGroups(groups_coordinators, acc) ==
    IF groups_coordinators = <<>> THEN acc
    ELSE CoordinatorsGroups(Tail(groups_coordinators),
            DictAppend(acc, Head(groups_coordinators).value, Head(groups_coordinators).key))

\* _delete_consumer_groups_request
_delete_consumer_groups_request(group_ids, version) ==
    [api |-> "DeleteGroupsRequest", version |-> version, groups_names |-> group_ids]

\* a delete_consumer_groups that sends every group to every coordinator
DeleteGroupsRequestsOfAll(coordinators_groups, version) ==
    [k \in DOMAIN coordinators_groups |->
        To(_delete_consumer_groups_request(
               Flatten([j \in DOMAIN coordinators_groups |-> coordinators_groups[j].values]),
               version),
           coordinators_groups[k].key)]

\* requests of delete_consumer_groups: one per item of coordinators_groups
DeleteGroupsRequests(coordinators_groups, version) ==
    [k \in DOMAIN coordinators_groups |->
        To(_delete_consumer_groups_request(coordinators_groups[k].values, version),
           coordinators_groups[k].key)]

\* the broker id lists a caller passes to list_consumer_groups
BrokerIdLists == {NoneList} \cup {ListArg(ids) : ids \in SeqsUpTo(Nodes, MaxRequests)}

\* [broker.nodeId for broker in self._client.cluster.brokers()]
ClusterBrokers == [b \in 1 .. NumNodes |-> b]

\* _list_consumer_groups_request
_list_consumer_groups_request(version) == [api |-> "ListGroupsRequest", version |-> version]

\* a list_consumer_groups that asks only the first broker of the list
ListGroupsRequestsOfFirst(broker_ids, version) ==
    LET ids == IF broker_ids.none THEN ClusterBrokers ELSE broker_ids.items IN
    [k \in DOMAIN SubSeq(ids, 1, Min(1, Len(ids))) |->
        To(_list_consumer_groups_request(version), ids[k])]

\* requests of list_consumer_groups: one per broker id
ListGroupsRequests(broker_ids, version) ==
    LET ids == IF broker_ids.none THEN ClusterBrokers ELSE broker_ids.items IN
    [k \in DOMAIN ids |-> To(_list_consumer_groups_request(version), ids[k])]

\* the partition lists a caller passes to list_consumer_group_offsets
PartitionLists ==
    {NoneList, ListArg(<<TP("t", 0)>>), ListArg(<<TP("t", 0), TP("u", 0)>>)}

\* list(six.iteritems(topics_partitions_dict)): the partitions by topic
TopicsPartitions(partitions) ==
    LET by_topic == TopicToPartitions(partitions, <<>>) IN
    [k \in DOMAIN by_topic |->
        [topic |-> by_topic[k].key,
         partitions |-> {by_topic[k].values[j].partition : j \in DOMAIN by_topic[k].values}]]

\* _list_consumer_group_offsets_request
OffsetFetchBuild(group_id, partitions, version, node_id) ==
    IF partitions.none
    THEN IF version <= 1
         THEN BuildRaises("ValueError")
         ELSE Built(<<To([api |-> "OffsetFetchRequest", version |-> version,
                          group_id |-> group_id, all_topics |-> TRUE, topics |-> <<>>],
                         node_id)>>)
    ELSE Built(<<To([api |-> "OffsetFetchRequest", version |-> version,
                     group_id |-> group_id, all_topics |-> FALSE,
                     topics |-> TopicsPartitions(partitions.items)], node_id)>>)

\* create_topics up to its call of _send_request_to_controller
CreateTopicsBuild(validate_only, timeout_ms, version) ==
    IF version = 0
    THEN IF validate_only
         THEN BuildRaises("IncompatibleBrokerVersion")
         ELSE Built(<<To([api |-> "CreateTopicsRequest", version |-> version,
                          timeout |-> timeout_ms], None)>>)
    ELSE Built(<<To([api |-> "CreateTopicsRequest", version |-> version,
                     timeout |-> timeout_ms, validate_only |-> validate_only], None)>>)

\* the request of delete_topics, create_partitions and
\* perform_leader_election: the negotiated version and the validated timeout
DeleteTopicsBuild(timeout_ms, version) ==
    Built(<<To([api |-> "DeleteTopicsRequest", version |-> version,
                timeout |-> timeout_ms], None)>>)

CreatePartitionsBuild(validate_only, timeout_ms, version) ==
    Built(<<To([api |-> "CreatePartitionsRequest", version |-> version,
                timeout |-> timeout_ms, validate_only |-> validate_only], None)>>)

ElectLeadersBuild(timeout_ms, version) ==
    Built(<<To([api |-> "ElectLeadersRequest", version |-> version,
                timeout |-> timeout_ms], None)>>)

\* the request that a controller-bound operation builds: version =
\* self._client.api_version(...), timeout_ms = self._validate_timeout(timeout_ms)
ControllerRequestBuild(op, validate_only, timeout_ms, cluster) ==
    CASE op = "create_topics" ->
            CreateTopicsBuild(validate_only, _validate_timeout(timeout_ms),
                              api_version(3, cluster))
      [] op = "delete_topics" ->
            DeleteTopicsBuild(_validate_timeout(timeout_ms), api_version(3, cluster))
      [] op = "create_partitions" ->
            CreatePartitionsBuild(validate_only, _validate_timeout(timeout_ms),
                                  api_version(1, cluster))
      [] op = "perform_leader_election" ->
            ElectLeadersBuild(_validate_timeout(timeout_ms), api_version(1, cluster))

\* error codes of a group in a DescribeGroupsResponse or DeleteGroupsResponse
GroupCodes == {0, 16}

\* error codes of a ListGroupsResponse
ListGroupsCodes == {0, 15}

\* the group lists a broker reports in a ListGroupsResponse
ReportedGroups ==
    {<<>>, <<<<"g1", "consumer">>>>, <<<<"g1", "consumer">>, <<"g2", "">>>>}

\* error codes of a partition in an OffsetFetchResponse
OffsetFetchCodes == {0, 3}

\* the partitions an OffsetFetchResponse reports on: those of the request, or
\* those the group has offsets for
OffsetFetchPartitions(request) ==
    IF request.all_topics THEN <<TP("t", 0)>>
    ELSE ListOf({tp \in AllTPs : \E k \in DOMAIN request.topics :
                                      /\ request.topics[k].topic = tp.topic
                                      /\ tp.partition \in request.topics[k].partitions})

\* what a broker can answer to a request of an operation
OpResponsesTo(request) ==
    CASE request.api = "FindCoordinatorRequest" ->
            {[api |-> "FindCoordinatorResponse", error_code |-> 0, coordinator_id |-> n] :
                n \in Nodes}
            \cup {[api |-> "FindCoordinatorResponse", error_code |-> e,
                   coordinator_id |-> -1] : e \in CoordinatorCodes \ {0}}
      [] request.api = "DescribeGroupsRequest" ->
            {[api |-> "DescribeGroupsResponse", version |-> request.version,
              groups |-> <<[error_code |-> e, group |-> request.groups[1]]>>] :
                e \in GroupCodes}
      [] request.api = "DeleteGroupsRequest" ->
            {[api |-> "DeleteGroupsResponse", version |-> request.version,
              results |-> [k \in DOMAIN request.groups_names |->
                              <<request.groups_names[k], codes[k]>>]] :
                codes \in [DOMAIN request.groups_names -> GroupCodes]}
      [] request.api = "ListGroupsRequest" ->
            {[api |-> "ListGroupsResponse", version |-> request.version,
              error_code |-> 0, groups |-> g] : g \in ReportedGroups}
            \cup {[api |-> "ListGroupsResponse", version |-> request.version,
                   error_code |-> e, groups |-> <<>>] : e \in ListGroupsCodes \ {0}}
      [] request.api = "OffsetFetchRequest" ->
            LET reported == OffsetFetchPartitions(request) IN
            {[api |-> "OffsetFetchResponse", version |-> request.version,
              error_code |-> e,
              partitions |-> [k \in DOMAIN reported |->
                                 [tp |-> reported[k], offset |-> 7,
                                  error_code |-> codes[k]]]] :
                e \in (IF request.version > 1 THEN GroupCodes ELSE {0}),
                codes \in [DOMAIN reported -> OffsetFetchCodes]}
      [] OTHER ->
            {[api |-> "Response", version |-> request.version, to |-> request]}

\* a processing of responses that raises on none of them
NoResponseError(response) == ""

\* the exception that the processing of a response raises, "" when none:
\* _find_coordinator_id_process_response,
\* _describe_consumer_groups_process_response,
\* _list_consumer_groups_process_response,
\* _list_consumer_group_offsets_process_response, _convert_delete_groups_response
ResponseError(response) ==
    CASE response.api = "FindCoordinatorResponse" ->
            IF FindCoordinatorRaises(response) THEN for_code(response.error_code) ELSE ""
      [] response.api = "DescribeGroupsResponse" ->
            IF for_code(response.groups[1].error_code) # "NoError"
            THEN for_code(response.groups[1].error_code) ELSE ""
      [] response.api = "ListGroupsResponse" ->
            IF for_code(response.error_code) # "NoError"
            THEN for_code(response.error_code) ELSE ""
      [] response.api = "OffsetFetchResponse" ->
            IF response.version > 1 /\ for_code(response.error_code) # "NoError"
            THEN for_code(response.error_code)
            ELSE LET bad == {k \in DOMAIN response.partitions :
                                for_code(response.partitions[k].error_code) # "NoError"}
                 IN IF bad = {} THEN ""
                    ELSE for_code(response.partitions[
                             CHOOSE k \in bad : \A j \in bad : k <= j].error_code)
      [] OTHER -> ""

\* the value that the processing of a response returns
ResponseValue(response) ==
    CASE response.api = "FindCoordinatorResponse" ->
            _find_coordinator_id_process_response(response)
      [] response.api = "DescribeGroupsResponse" -> response.groups[1]
      [] response.api = "ListGroupsResponse" -> response.groups
      [] response.api = "DeleteGroupsResponse" ->
            [k \in DOMAIN response.results |->
                <<response.results[k][1], for_code(response.results[k][2])>>]
      [] response.api = "OffsetFetchResponse" ->
            [tp \in {response.partitions[k].tp : k \in DOMAIN response.partitions} |->
                response.partitions[CHOOSE k \in DOMAIN response.partitions :
                                        response.partitions[k].tp = tp].offset]
      [] OTHER -> response

\* the ways a list of (request, node_id) can go when all of it is sent and
\* answered: the node of each request, the least-loaded one when node_id is
\* None, and the response to it
RECURSIVE Exchanges(_)
Exchanges(requests) ==
    IF requests = <<>> THEN {<<>>}
    ELSE {<<[node_id |-> n, least_loaded |-> Head(requests).node_id = None,
             request |-> Head(requests).request, response |-> r]>> \o rest :
            n \in (IF Head(requests).node_id = None THEN Nodes
                   ELSE {Head(requests).node_id}),
            r \in OpResponsesTo(Head(requests).request),
            rest \in Exchanges(Tail(requests))}

\* the requests of exchanges as they are sent
SentOf(x) ==
    [k \in DOMAIN x |->
        [node_id |-> x[k].node_id, least_loaded |-> x[k].least_loaded,
         request |-> x[k].request]]

\* the nodes of exchanges: send_request calls await_ready(node_id) before it
\* sends
AwaitedOf(x) == [k \in DOMAIN x |-> x[k].node_id]

OpEnd(outcome, error, result) ==
    /\ o_pc' = "done"
    /\ o_outcome' = outcome
    /\ o_error' = error
    /\ o_result' = result

\* an operation starts: its arguments, and the cluster it runs against
OpBegin(op, args, cluster) ==
    /\ o_op' = op
    /\ o_args' = args
    /\ o_cluster' = cluster
    /\ UNCHANGED <<o_sent, o_awaited, o_responses>>

\* the built requests go to send_request / send_requests, or the exception
\* of the building part leaves the operation
OpGoOn(build, phase, items) ==
    IF build.raised # ""
    THEN /\ OpEnd("raised", build.raised, <<>>)
         /\ UNCHANGED <<o_phase, o_requests, o_items>>
    ELSE /\ o_pc' = "fanout"
         /\ o_phase' = phase
         /\ o_requests' = build.requests
         /\ o_items' = items
         /\ UNCHANGED <<o_outcome, o_error, o_result>>

\* describe_configs(config_resources, include_synonyms=...)
DescribeConfigsCall(resources, clusters) ==
    /\ o_pc = "idle"
    /\ \E config_resources \in SeqsUpTo(resources, MaxRequests),
          include_synonyms \in BOOLEAN, cluster \in clusters :
           /\ OpBegin("describe_configs",
                      [config_resources |-> config_resources,
                       include_synonyms |-> include_synonyms], cluster)
           /\ OpGoOn(DescribeConfigsBuild(config_resources, include_synonyms,
                                          api_version(2, cluster)), "main", <<>>)

StartDescribeConfigs(clusters) == DescribeConfigsCall(ConfigResources, clusters)

\* describe_configs of resources that name config keys
StartDescribeConfigsKeyed(clusters) == DescribeConfigsCall(KeyedConfigResources, clusters)

\* _get_cluster_metadata(topics=..., auto_topic_creation=...)
StartGetClusterMetadata(clusters) ==
    /\ o_pc = "idle"
    /\ \E topics \in TopicLists, auto_topic_creation \in BOOLEAN, cluster \in clusters :
           /\ OpBegin("_get_cluster_metadata",
                      [topics |-> topics, auto_topic_creation |-> auto_topic_creation],
                      cluster)
           /\ OpGoOn(MetadataBuild(topics, auto_topic_creation, api_version(8, cluster)),
                     "main", <<>>)

\* describe_consumer_groups(group_ids, group_coordinator_id=...,
\* include_authorized_operations=...)
StartDescribeConsumerGroups(clusters) ==
    /\ o_pc = "idle"
    /\ \E group_ids \in GroupIdLists, group_coordinator_id \in Nodes \cup {None},
          include_authorized_operations \in BOOLEAN, cluster \in clusters :
           /\ OpBegin("describe_consumer_groups",
                      [group_ids |-> group_ids,
                       group_coordinator_id |-> group_coordinator_id,
                       include_authorized_operations |-> include_authorized_operations],
                      cluster)
           /\ IF group_coordinator_id # None
              THEN LET groups_coordinators == SameCoordinator(group_ids, group_coordinator_id)
                   IN OpGoOn(Built(DescribeGroupsRequests(groups_coordinators,
                                                          api_version(3, cluster))),
                             "main", groups_coordinators)
              ELSE OpGoOn(Built(FindCoordinatorRequests(
                                    group_ids, api_version(FindCoordinatorMaxVersion, cluster))),
                          "find", <<>>)

\* delete_consumer_groups(group_ids, group_coordinator_id=...)
StartDeleteConsumerGroups(clusters) ==
    /\ o_pc = "idle"
    /\ \E group_ids \in GroupIdLists, group_coordinator_id \in Nodes \cup {None},
          cluster \in clusters :
           /\ OpBegin("delete_consumer_groups",
                      [group_ids |-> group_ids,
                       group_coordinator_id |-> group_coordinator_id], cluster)
           /\ IF group_coordinator_id # None
              THEN OpGoOn(Built(DeleteGroupsRequests(
                                    <<[key |-> group_coordinator_id, values |-> group_ids]>>,
                                    api_version(1, cluster))),
                          "main", SameCoordinator(group_ids, group_coordinator_id))
              ELSE OpGoOn(Built(FindCoordinatorRequests(
                                    group_ids, api_version(FindCoordinatorMaxVersion, cluster))),
                          "find", <<>>)

\* list_consumer_groups(broker_ids=...)
StartListConsumerGroups(clusters) ==
    /\ o_pc = "idle"
    /\ \E broker_ids \in BrokerIdLists, cluster \in clusters :
           /\ OpBegin("list_consumer_groups", [broker_ids |-> broker_ids], cluster)
           /\ OpGoOn(Built(ListGroupsRequests(broker_ids, api_version(2, cluster))),
                     "main", <<>>)

\* list_consumer_group_offsets(group_id, group_coordinator_id=..., partitions=...)
StartListConsumerGroupOffsets(clusters) ==
    /\ o_pc = "idle"
    /\ \E group_id \in Groups, group_coordinator_id \in Nodes \cup {None},
          partitions \in PartitionLists, cluster \in clusters :
           /\ OpBegin("list_consumer_group_offsets",
                      [group_ids |-> <<group_id>>,
                       group_coordinator_id |-> group_coordinator_id,
                       partitions |-> partitions], cluster)
           /\ IF group_coordinator_id # None
              THEN OpGoOn(OffsetFetchBuild(group_id, partitions, api_version(5, cluster),
                                           group_coordinator_id),
                          "main", SameCoordinator(<<group_id>>, group_coordinator_id))
              ELSE OpGoOn(Built(FindCoordinatorRequests(
                                    <<group_id>>, api_version(FindCoordinatorMaxVersion, cluster))),
                          "find", <<>>)

\* the requests an operation goes on with once _find_coordinator_ids has
\* returned groups_coordinators
AfterFindCoordinators(op, args, groups_coordinators, cluster) ==
    CASE op = "describe_consumer_groups" ->
            Built(DescribeGroupsRequests(groups_coordinators, api_version(3, cluster)))
      [] op = "delete_consumer_groups" ->
            Built(DeleteGroupsRequests(CoordinatorsGroups(groups_coordinators, <<>>),
                                       api_version(1, cluster)))
      [] op = "list_consumer_group_offsets" ->
            OffsetFetchBuild(args.group_ids[1], args.partitions, api_version(5, cluster),
                             groups_coordinators[1].value)

\* list(set(...)) of a list: its elements, each once
RECURSIVE ListOfSet(_, _)
ListOfSet(s, acc) ==
    IF s = <<>> THEN acc
    ELSE ListOfSet(Tail(s), IF Head(s) \in Range(acc) THEN acc ELSE Append(acc, Head(s)))

\* what an operation returns from the values of its responses
OpResult(op, values) ==
    CASE op = "delete_consumer_groups" -> Flatten(values)
      [] op = "list_consumer_groups" -> ListOfSet(Flatten(values), <<>>)
      [] op \in {"list_consumer_group_offsets", "_get_cluster_metadata"} -> values[1]
      [] OTHER -> values

\* send_requests (send_request for a single request) on the requests of the
\* operation, and what the operation does with the outcome.  A target that
\* does not become ready raises out of the submission; a failed future raises
\* out of the wait; otherwise the responses are processed in the order of
\* the requests.
OpFanout ==
    /\ o_pc = "fanout"
    /\ \E x \in Exchanges(o_requests) :
          \/ \E k \in DOMAIN x :
                /\ o_sent' = o_sent \o SentOf(SubSeq(x, 1, k - 1))
                /\ o_awaited' = o_awaited \o AwaitedOf(SubSeq(x, 1, k))
                /\ OpEnd("raised", "KafkaConnectionError", <<>>)
                /\ UNCHANGED <<o_phase, o_requests, o_items, o_responses>>
          \/ /\ x # <<>>
             /\ o_sent' = o_sent \o SentOf(x)
             /\ o_awaited' = o_awaited \o AwaitedOf(x)
             /\ OpEnd("raised", "FutureFailed", <<>>)
             /\ UNCHANGED <<o_phase, o_requests, o_items, o_responses>>
          \/ LET failing == {k \in DOMAIN x : ResponseError(x[k].response) # ""}
                 values == [k \in DOMAIN x |-> ResponseValue(x[k].response)]
             IN /\ o_sent' = o_sent \o SentOf(x)
                /\ o_awaited' = o_awaited \o AwaitedOf(x)
                /\ IF failing # {}
                   THEN /\ OpEnd("raised",
                                 ResponseError(x[CHOOSE k \in failing :
                                                     \A j \in failing : k <= j].response),
                                 <<>>)
                        /\ o_responses' = [k \in DOMAIN x |-> x[k].response]
                        /\ UNCHANGED <<o_phase, o_requests, o_items>>
                   ELSE IF o_phase = "find"
                   THEN /\ OpGoOn(AfterFindCoordinators(
                                      o_op, o_args,
                                      DictItems(o_args.group_ids, values, <<>>), o_cluster),
                                  "main", DictItems(o_args.group_ids, values, <<>>))
                        /\ UNCHANGED o_responses
                   ELSE /\ OpEnd("returned", "", OpResult(o_op, values))
                        /\ o_responses' = [k \in DOMAIN x |-> x[k].response]
                        /\ UNCHANGED <<o_phase, o_requests, o_items>>
    /\ UNCHANGED <<o_op, o_args, o_cluster>>

\* the caller has the result; the next operation can start
OpFinish ==
    /\ o_pc = "done"
    /\ o_pc' = "idle"
    /\ o_op' = "none"
    /\ o_args' = <<>>
    /\ o_cluster' = NoCluster
    /\ o_phase' = ""
    /\ o_requests' = <<>>
    /\ o_sent' = <<>>
    /\ o_awaited' = <<>>
    /\ o_items' = <<>>
    /\ o_responses' = <<>>
    /\ o_outcome' = "none"
    /\ o_error' = ""
    /\ o_result' = <<>>

OpInit ==
    /\ o_pc = "idle"
    /\ o_op = "none"
    /\ o_args = <<>>
    /\ o_cluster = NoCluster
    /\ o_phase = ""
    /\ o_requests = <<>>
    /\ o_sent = <<>>
    /\ o_awaited = <<>>
    /\ o_items = <<>>
    /\ o_responses = <<>>
    /\ o_outcome = "none"
    /\ o_error = ""
    /\ o_result = <<>>

\* create_topics(new_topics, timeout_ms=..., validate_only=...): the request
\* is built and handed to _send_request_to_controller
ControllerOperationCall(ops, timeouts, clusters) ==
    /\ o_pc = "idle"
    /\ c_pc = "idle"
    /\ \E op \in ops, validate_only \in BOOLEAN, timeout_ms \in timeouts,
          cluster \in clusters :
           LET build == ControllerRequestBuild(op, validate_only, timeout_ms, cluster) IN
           /\ OpBegin(op, [validate_only |-> validate_only, timeout_ms |-> timeout_ms],
                      cluster)
           /\ UNCHANGED <<o_phase, o_items>>
           /\ IF build.raised # ""
              THEN /\ OpEnd("raised", build.raised, <<>>)
                   /\ UNCHANGED <<o_requests, ctlVars>>
              ELSE /\ o_pc' = "controller"
                   /\ o_requests' = build.requests
                   /\ UNCHANGED <<o_outcome, o_error, o_result>>
                   /\ EnterControllerCall(op)

StartCreateTopics(clusters) ==
    ControllerOperationCall({"create_topics"}, {NoTimeout}, clusters)

\* create_topics, delete_topics, create_partitions and
\* perform_leader_election called with and without timeout_ms
StartTimedOperation(clusters) ==
    ControllerOperationCall(ControllerOps, TimeoutArgs, clusters)

\* _send_request_to_controller has returned or raised: create_topics returns
\* its response or lets the exception through
CreateTopicsReturn ==
    /\ o_pc = "controller"
    /\ c_pc = "done"
    /\ OpEnd(c_outcome, c_error, c_retval)
    /\ o_sent' = [k \in DOMAIN c_sent |->
                     [node_id |-> c_sent[k], least_loaded |-> FALSE,
                      request |-> o_requests[1].request]]
    /\ o_awaited' = IF InitialTries - tries > Len(c_sent)
                    THEN Append(c_sent, ControllerTarget)
                    ELSE c_sent
    /\ CtlFinish
    /\ UNCHANGED <<o_op, o_args, o_cluster, o_phase, o_requests, o_items, o_responses>>

(***************************************************************************)
(* The protocol registry (kafka/protocol/admin.py): the request and        *)
(* response classes with their API_VERSION and RESPONSE_TYPE, and the      *)
(* lists that the operations index with the negotiated version.            *)
(***************************************************************************)
ProtocolClass(base, version, response_type) ==
    [base |-> base, API_VERSION |-> version, RESPONSE_TYPE |-> response_type]

\* the classes of kafka/protocol/admin.py that the versioned lists below hold
ProtocolClasses ==
    "CreateTopicsRequest_v0" :> ProtocolClass("Request", 0, "CreateTopicsResponse_v0")
    @@ "CreateTopicsRequest_v1" :> ProtocolClass("Request", 1, "CreateTopicsResponse_v1")
    @@ "CreateTopicsRequest_v2" :> ProtocolClass("Request", 2, "CreateTopicsResponse_v2")
    @@ "CreateTopicsRequest_v3" :> ProtocolClass("Request", 3, "CreateTopicsResponse_v3")
    @@ "CreateTopicsResponse_v0" :> ProtocolClass("Response", 0, "")
    @@ "CreateTopicsResponse_v1" :> ProtocolClass("Response", 1, "")
    @@ "CreateTopicsResponse_v2" :> ProtocolClass("Response", 2, "")
    @@ "CreateTopicsResponse_v3" :> ProtocolClass("Response", 3, "")
    @@ "DeleteTopicsRequest_v0" :> ProtocolClass("Request", 0, "DeleteTopicsResponse_v0")
    @@ "DeleteTopicsRequest_v1" :> ProtocolClass("Request", 1, "DeleteTopicsResponse_v1")
    @@ "DeleteTopicsRequest_v2" :> ProtocolClass("Request", 2, "DeleteTopicsResponse_v2")
    @@ "DeleteTopicsRequest_v3" :> ProtocolClass("Request", 3, "DeleteTopicsResponse_v3")
    @@ "DeleteTopicsResponse_v0" :> ProtocolClass("Response", 0, "")
    @@ "DeleteTopicsResponse_v1" :> ProtocolClass("Response", 1, "")
    @@ "DeleteTopicsResponse_v2" :> ProtocolClass("Response", 2, "")
    @@ "DeleteTopicsResponse_v3" :> ProtocolClass("Response", 3, "")
    @@ "DeleteRecordsRequest_v0" :> ProtocolClass("Request", 0, "DeleteRecordsResponse_v0")
    @@ "DeleteRecordsResponse_v0" :> ProtocolClass("Response", 0, "")
    @@ "ListGroupsRequest_v0" :> ProtocolClass("Request", 0, "ListGroupsResponse_v0")
    @@ "ListGroupsRequest_v1" :> ProtocolClass("Request", 1, "ListGroupsResponse_v1")
    @@ "ListGroupsRequest_v2" :> ProtocolClass("Request", 1, "ListGroupsResponse_v2")
    @@ "ListGroupsResponse_v0" :> ProtocolClass("Response", 0, "")
    @@ "ListGroupsResponse_v1" :> ProtocolClass("Response", 1, "")
    @@ "ListGroupsResponse_v2" :> ProtocolClass("Response", 2, "")
    @@ "DescribeGroupsRequest_v0" :> ProtocolClass("Request", 0, "DescribeGroupsResponse_v0")
    @@ "DescribeGroupsRequest_v1" :> ProtocolClass("Request", 1, "DescribeGroupsResponse_v1")
    @@ "DescribeGroupsRequest_v2" :> ProtocolClass("Request", 2, "DescribeGroupsResponse_v2")
    @@ "DescribeGroupsRequest_v3" :> ProtocolClass("Request", 3, "DescribeGroupsResponse_v3")
    @@ "DescribeGroupsResponse_v0" :> ProtocolClass("Response", 0, "")
    @@ "DescribeGroupsResponse_v1" :> ProtocolClass("Response", 1, "")
    @@ "DescribeGroupsResponse_v2" :> ProtocolClass("Response", 2, "")
    @@ "DescribeGroupsResponse_v3" :> ProtocolClass("Response", 3, "")
    @@ "AlterConfigsRequest_v0" :> ProtocolClass("Request", 0, "AlterConfigsResponse_v0")
    @@ "AlterConfigsRequest_v1" :> ProtocolClass("Request", 1, "AlterConfigsResponse_v1")
    @@ "AlterConfigsResponse_v0" :> ProtocolClass("Response", 0, "")
    @@ "DescribeConfigsRequest_v0" :> ProtocolClass("Request", 0, "DescribeConfigsResponse_v0")
    @@ "DescribeConfigsRequest_v1" :> ProtocolClass("Request", 1, "DescribeConfigsResponse_v1")
    @@ "DescribeConfigsRequest_v2" :> ProtocolClass("Request", 2, "DescribeConfigsResponse_v2")
    @@ "DescribeConfigsResponse_v0" :> ProtocolClass("Response", 0, "")
    @@ "DescribeConfigsResponse_v1" :> ProtocolClass("Response", 1, "")
    @@ "DescribeConfigsResponse_v2" :> ProtocolClass("Response", 2, "")
    @@ "CreatePartitionsRequest_v0" :> ProtocolClass("Request", 0, "CreatePartitionsResponse_v0")
    @@ "CreatePartitionsRequest_v1" :> ProtocolClass("Request", 1, "CreatePartitionsResponse_v1")
    @@ "CreatePartitionsResponse_v0" :> ProtocolClass("Response", 0, "")
    @@ "CreatePartitionsResponse_v1" :> ProtocolClass("Response", 1, "")
    @@ "DeleteGroupsRequest_v0" :> ProtocolClass("Request", 0, "DeleteGroupsResponse_v0")
    @@ "DeleteGroupsRequest_v1" :> ProtocolClass("Request", 1, "DeleteGroupsResponse_v1")
    @@ "DeleteGroupsResponse_v0" :> ProtocolClass("Response", 0, "")
    @@ "DeleteGroupsResponse_v1" :> ProtocolClass("Response", 1, "")
    @@ "ElectLeadersRequest_v0" :> ProtocolClass("Request", 1, "ElectLeadersResponse_v0")
    @@ "ElectLeadersRequest_v1" :> ProtocolClass("Request", 1, "ElectLeadersResponse_v1")
    @@ "ElectLeadersResponse_v0" :> ProtocolClass("Response", 1, "")
    @@ "ElectLeadersResponse_v1" :> ProtocolClass("Response", 1, "")

\* the versioned lists: the class at index v is the one of version v
VersionedLists ==
    "CreateTopicsRequest" :> <<"CreateTopicsRequest_v0", "CreateTopicsRequest_v1", "CreateTopicsRequest_v2", "CreateTopicsRequest_v3">>
    @@ "CreateTopicsResponse" :> <<"CreateTopicsResponse_v0", "CreateTopicsResponse_v1", "CreateTopicsResponse_v2", "CreateTopicsResponse_v3">>
    @@ "DeleteTopicsRequest" :> <<"DeleteTopicsRequest_v0", "DeleteTopicsRequest_v1", "DeleteTopicsRequest_v2", "DeleteTopicsRequest_v3">>
    @@ "DeleteTopicsResponse" :> <<"DeleteTopicsResponse_v0", "DeleteTopicsResponse_v1", "DeleteTopicsResponse_v2", "DeleteTopicsResponse_v3">>
    @@ "DeleteRecordsRequest" :> <<"DeleteRecordsRequest_v0">>
    @@ "DeleteRecordsResponse" :> <<"DeleteRecordsResponse_v0">>
    @@ "ListGroupsRequest" :> <<"ListGroupsRequest_v0", "ListGroupsRequest_v1", "ListGroupsRequest_v2">>
    @@ "ListGroupsResponse" :> <<"ListGroupsResponse_v0", "ListGroupsResponse_v1", "ListGroupsResponse_v2">>
    @@ "DescribeGroupsRequest" :> <<"DescribeGroupsRequest_v0", "DescribeGroupsRequest_v1", "DescribeGroupsRequest_v2", "DescribeGroupsRequest_v3">>
    @@ "DescribeGroupsResponse" :> <<"DescribeGroupsResponse_v0", "DescribeGroupsResponse_v1", "DescribeGroupsResponse_v2", "DescribeGroupsResponse_v3">>
    @@ "AlterConfigsRequest" :> <<"AlterConfigsRequest_v0", "AlterConfigsRequest_v1">>
    @@ "AlterConfigsResponse" :> <<"AlterConfigsResponse_v0", "AlterConfigsRequest_v1">>
    @@ "DescribeConfigsRequest" :> <<"DescribeConfigsRequest_v0", "DescribeConfigsRequest_v1", "DescribeConfigsRequest_v2">>
    @@ "DescribeConfigsResponse" :> <<"DescribeConfigsResponse_v0", "DescribeConfigsResponse_v1", "DescribeConfigsResponse_v2">>
    @@ "CreatePartitionsRequest" :> <<"CreatePartitionsRequest_v0", "CreatePartitionsRequest_v1">>
    @@ "CreatePartitionsResponse" :> <<"CreatePartitionsResponse_v0", "CreatePartitionsResponse_v1">>
    @@ "DeleteGroupsRequest" :> <<"DeleteGroupsRequest_v0", "DeleteGroupsRequest_v1">>
    @@ "DeleteGroupsResponse" :> <<"DeleteGroupsResponse_v0", "DeleteGroupsResponse_v1">>
    @@ "ElectLeadersRequest" :> <<"ElectLeadersRequest_v0", "ElectLeadersRequest_v1">>
    @@ "ElectLeadersResponse" :> <<"ElectLeadersResponse_v0", "ElectLeadersResponse_v1">>

\* the list of response classes that goes with a list of request classes
ResponseListOf ==
    "CreateTopicsRequest" :> "CreateTopicsResponse"
    @@ "DeleteTopicsRequest" :> "DeleteTopicsResponse"
    @@ "DeleteRecordsRequest" :> "DeleteRecordsResponse"
    @@ "ListGroupsRequest" :> "ListGroupsResponse"
    @@ "DescribeGroupsRequest" :> "DescribeGroupsResponse"
    @@ "AlterConfigsRequest" :> "AlterConfigsResponse"
    @@ "DescribeConfigsRequest" :> "DescribeConfigsResponse"
    @@ "CreatePartitionsRequest" :> "CreatePartitionsResponse"
    @@ "DeleteGroupsRequest" :> "DeleteGroupsResponse"
    @@ "ElectLeadersRequest" :> "ElectLeadersResponse"

\* ListGroupsRequest[version] and the like: the class that an operation
\* instantiates for a request of a list at a negotiated version
RequestClass(request) ==
    ProtocolClasses[VersionedLists[request.api][request.version + 1]]

\* the api_version in the header of the request: the API_VERSION of its class
WireVersion(request) == RequestClass(request).API_VERSION

(***************************************************************************)
(* close()                                                                 *)
(***************************************************************************)
\* a close that does not look at self._closed
CloseUnguarded ==
    /\ close_calls < MaxCloseCalls
    /\ close_calls' = close_calls + 1
    /\ metrics_closes' = metrics_closes + 1
    /\ client_closes' = client_closes + 1
    /\ _closed' = TRUE

\* close(): nothing when already closed; otherwise self._metrics.close(),
\* self._client.close(), self._closed = True
Close ==
    /\ close_calls < MaxCloseCalls
    /\ close_calls' = close_calls + 1
    /\ IF _closed
       THEN UNCHANGED <<metrics_closes, client_closes, _closed>>
       ELSE /\ metrics_closes' = metrics_closes + 1
            /\ client_closes' = client_closes + 1
            /\ _closed' = TRUE

\* __init__: self._closed = False, metrics and broker client open
CloseInit ==
    /\ _closed = FALSE
    /\ close_calls = 0
    /\ metrics_closes = 0
    /\ client_closes = 0

(***************************************************************************)
(* RoundRobinPartitionAssignor.assign                                      *)
(* (kafka/coordinator/assignors/roundrobin.py).  Member ids, group         *)
(* instance ids and topics are numbers in the order Python gives the       *)
(* strings they stand for: member 0 is "C0", topic 0 is "t0".              *)
(***************************************************************************)
MemberIds == {0, 1, 2}

\* subscription.group_instance_id: None for a dynamic member
InstanceIds == {None, 1, 2}

TopicIds == {0, 1, 2}

\* subscription.topics
TopicSets == {{0}, {0, 1}, {0, 1, 2}}

\* the cluster: how many partitions each topic has, 0 when the cluster has no
\* metadata for the topic
AssignorClusters ==
    {[topic \in TopicIds |-> counts[topic + 1]] :
        counts \in {<<1, 2, 3>>, <<3, 0, 0>>, <<2, 2, 0>>, <<3, 3, 0>>, <<1, 0, 0>>,
                    <<0, 0, 0>>}}

Subscription(member_id, group_instance_id, topics) ==
    [member_id |-> member_id, group_instance_id |-> group_instance_id, topics |-> topics]

\* group_subscriptions: a dict member_id -> subscription, as the list of its
\* items in the order the dict holds them
GroupSubscriptions ==
    {gs \in UNION {[1 .. k -> {Subscription(m, g, t) : m \in MemberIds, g \in InstanceIds,
                                                       t \in TopicSets}] :
                      k \in 0 .. Cardinality(MemberIds)} :
        \A i, j \in DOMAIN gs : i # j => gs[i].member_id # gs[j].member_id}

\* cluster.partitions_for_topic(topic); None is the empty set here, the loop
\* over the topics skipping the topic in both cases
partitions_for_topic(cluster, topic) == 0 .. cluster[topic] - 1

RECURSIVE SeqOfSet(_)
SeqOfSet(S) ==
    IF S = {} THEN <<>>
    ELSE LET x == CHOOSE x \in S : TRUE IN <<x>> \o SeqOfSet(S \ {x})

\* TopicPartition(topic, partition) < TopicPartition(topic, partition)
TopicPartitionLess(a, b) ==
    \/ a.topic < b.topic
    \/ a.topic = b.topic /\ a.partition < b.partition

\* (group_instance_id, member_id) < (group_instance_id, member_id)
IdsLess(a, b) ==
    \/ a[1] < b[1]
    \/ a[1] = b[1] /\ a[2] < b[2]

all_topics(subscriptions) == UNION {subscriptions[k].topics : k \in DOMAIN subscriptions}

\* all_topic_partitions after all_topic_partitions.sort()
all_topic_partitions(cluster, subscriptions) ==
    SortSeq(SeqOfSet(UNION {{TP(topic, partition) :
                                partition \in partitions_for_topic(cluster, topic)} :
                            topic \in all_topics(subscriptions)}),
            TopicPartitionLess)

ungrouped(subscriptions) ==
    [k \in DOMAIN subscriptions |->
        <<subscriptions[k].group_instance_id, subscriptions[k].member_id>>]

\* {k: list(g) for k, g in itertools.groupby(ids, key=...)}.get(static, []):
\* groupby starts a new group whenever the key changes, and the dict keeps
\* the last group of each key
grouped(ids, static) ==
    LET with_key == {i \in DOMAIN ids : (ids[i][1] # None) = static}
    IN IF with_key = {} THEN <<>>
       ELSE LET last == CHOOSE i \in with_key : \A j \in with_key : j <= i
                first == CHOOSE i \in with_key :
                            /\ \A j \in i .. last : j \in with_key
                            /\ \A h \in with_key :
                                  (\A j \in h .. last : j \in with_key) => i <= h
            IN SubSeq(ids, first, last)

\* sorted static members first, then sorted dynamic members
member_list(subscriptions) ==
    SortSeq(grouped(ungrouped(subscriptions), TRUE), IdsLess)
        \o SortSeq(grouped(ungrouped(subscriptions), FALSE), IdsLess)

\* group_subscriptions[member_id]
SubscriptionOf(subscriptions, member_id) ==
    subscriptions[CHOOSE k \in DOMAIN subscriptions :
                      subscriptions[k].member_id = member_id]

\* the loop over all_topic_partitions; pos counts the calls of
\* next(member_iter), acc lists (member_id, partition) as they are assigned
RECURSIVE AssignLoop(_, _, _, _, _)
AssignLoop(partitions, pos, members, subscriptions, acc) ==
    IF partitions = <<>> THEN [raised |-> "", assigned |-> acc]
    ELSE IF members = <<>> THEN [raised |-> "StopIteration", assigned |-> acc]
    ELSE LET member_id == members[(pos % Len(members)) + 1][2]
         IN IF Head(partitions).topic \in SubscriptionOf(subscriptions, member_id).topics
            THEN AssignLoop(Tail(partitions), pos + 1, members, subscriptions,
                            Append(acc, <<member_id, Head(partitions)>>))
            ELSE \* member_id = next(member_iter) binds the whole
                 \* (group_instance_id, member_id) tuple, and the while test
                 \* looks it up in group_subscriptions
                 [raised |-> "KeyError", assigned |-> acc]

\* sorted(assignment[member_id].items()): (topic, [partition, ...]) by topic
AssignmentItems(assigned, member_id) ==
    LET mine == SelectSeq(assigned, LAMBDA a : a[1] = member_id)
        topics == SortSeq(SeqOfSet({mine[k][2].topic : k \in DOMAIN mine}),
                          LAMBDA a, b : a < b)
    IN [i \in DOMAIN topics |->
           <<topics[i],
             LET of_topic == SelectSeq(mine, LAMBDA a : a[2].topic = topics[i])
             IN [k \in DOMAIN of_topic |-> of_topic[k][2].partition]>>]

\* assign(cluster, group_subscriptions): the assignment of every member of
\* group_subscriptions, or the exception
assign(cluster, subscriptions) ==
    LET loop == AssignLoop(all_topic_partitions(cluster, subscriptions), 0,
                           member_list(subscriptions), subscriptions, <<>>)
    IN IF loop.raised # ""
       THEN [outcome |-> "raised", error |-> loop.raised, protocol_assignment |-> <<>>]
       ELSE [outcome |-> "returned", error |-> "",
             protocol_assignment |->
                 [k \in DOMAIN subscriptions |->
                     [member_id |-> subscriptions[k].member_id,
                      assignment |-> AssignmentItems(loop.assigned,
                                                     subscriptions[k].member_id)]]]

NoAssignment == [outcome |-> "none", error |-> "", protocol_assignment |-> <<>>]

\* the group leader calls assign
StartAssign ==
    /\ a_pc = "idle"
    /\ \E subscriptions \in GroupSubscriptions, cluster \in AssignorClusters :
          /\ group_subscriptions' = subscriptions
          /\ a_cluster' = cluster
          /\ a_verdict' = assign(cluster, subscriptions)
    /\ a_pc' = "done"

\* the caller has the assignment; the next rebalance can call assign
AssignFinish ==
    /\ a_pc = "done"
    /\ a_pc' = "idle"
    /\ group_subscriptions' = <<>>
    /\ a_cluster' = [topic \in TopicIds |-> 0]
    /\ a_verdict' = NoAssignment

AssignInit ==
    /\ a_pc = "idle"
    /\ group_subscriptions = <<>>
    /\ a_cluster = [topic \in TopicIds |-> 0]
    /\ a_verdict = NoAssignment

Init == CtlInit /\ FoInit /\ DrInit /\ OpInit /\ CloseInit /\ AssignInit

\* the client constructed against a cluster whose controller is node 1: the
\* calls that do not go to the controller behave alike for every controller
InitFixedController == Init /\ controller_id = 1

NextController ==
    \/ StartControllerCall /\ UNCHANGED <<foVars, drVars, opVars, closeVars, asVars>>
    \/ CtlSend /\ UNCHANGED <<foVars, drVars, opVars, closeVars, asVars>>
    \/ CtlReceive /\ UNCHANGED <<foVars, drVars, opVars, closeVars, asVars>>
    \/ RefreshStart /\ UNCHANGED <<foVars, drVars, opVars, closeVars, asVars>>
    \/ RefreshIterate /\ UNCHANGED <<foVars, drVars, opVars, closeVars, asVars>>
    \/ CtlFinish /\ UNCHANGED <<foVars, drVars, opVars, closeVars, asVars>>

SpecController == Init /\ [][NextController]_vars

\* the calling thread goes on running _refresh_controller_id: each
\* send_request of the loop returns or raises, and time.sleep(1) returns
SpecControllerLive ==
    /\ Init
    /\ [][NextController]_vars
    /\ WF_ctlVars(RefreshStart)
    /\ WF_ctlVars(RefreshIterate)

NextFanout ==
    \/ StartSendRequests /\ UNCHANGED <<ctlVars, drVars, opVars, closeVars, asVars>>
    \/ StartFindCoordinatorIds /\ UNCHANGED <<ctlVars, drVars, opVars, closeVars, asVars>>
    \/ Submit /\ UNCHANGED <<ctlVars, drVars, opVars, closeVars, asVars>>
    \/ Complete /\ UNCHANGED <<ctlVars, drVars, opVars, closeVars, asVars>>
    \/ WaitTest /\ UNCHANGED <<ctlVars, drVars, opVars, closeVars, asVars>>
    \/ Poll /\ UNCHANGED <<ctlVars, drVars, opVars, closeVars, asVars>>
    \/ FoFinish /\ UNCHANGED <<ctlVars, drVars, opVars, closeVars, asVars>>

\* the fan-out neither reads nor writes the controller id
SpecFanout == InitFixedController /\ [][NextFanout]_vars

NextDeleteRecords ==
    \/ StartDeleteRecords /\ UNCHANGED <<ctlVars, foVars, opVars, closeVars, asVars>>
    \/ GetLeaderForPartitions /\ UNCHANGED <<ctlVars, foVars, opVars, closeVars, asVars>>
    \/ DrSend /\ UNCHANGED <<ctlVars, foVars, opVars, closeVars, asVars>>
    \/ DrReceive /\ UNCHANGED <<ctlVars, foVars, opVars, closeVars, asVars>>
    \/ DrInterpret /\ UNCHANGED <<ctlVars, foVars, opVars, closeVars, asVars>>
    \/ DrFinish /\ UNCHANGED <<ctlVars, foVars, opVars, closeVars, asVars>>

\* delete_records neither reads nor writes the controller id
SpecDeleteRecords == InitFixedController /\ [][NextDeleteRecords]_vars

OthersUnchanged == UNCHANGED <<ctlVars, foVars, drVars, closeVars, asVars>>

NextOperations ==
    \/ StartDescribeConfigs(HomogeneousClusters) /\ OthersUnchanged
    \/ StartDescribeConsumerGroups(HomogeneousClusters) /\ OthersUnchanged
    \/ StartDeleteConsumerGroups(HomogeneousClusters) /\ OthersUnchanged
    \/ StartListConsumerGroups(HomogeneousClusters) /\ OthersUnchanged
    \/ StartListConsumerGroupOffsets(HomogeneousClusters) /\ OthersUnchanged
    \/ OpFanout /\ OthersUnchanged
    \/ OpFinish /\ OthersUnchanged

SpecOperations == InitFixedController /\ [][NextOperations]_vars

\* describe_configs of resources with and without config keys
NextConfigs ==
    \/ StartDescribeConfigsKeyed(HomogeneousClusters) /\ OthersUnchanged
    \/ OpFanout /\ OthersUnchanged
    \/ OpFinish /\ OthersUnchanged

SpecConfigs == InitFixedController /\ [][NextConfigs]_vars

NextAssignor ==
    \/ StartAssign /\ UNCHANGED <<ctlVars, foVars, drVars, opVars, closeVars>>
    \/ AssignFinish /\ UNCHANGED <<ctlVars, foVars, drVars, opVars, closeVars>>

SpecAssignor == InitFixedController /\ [][NextAssignor]_vars

\* the operations with a feature that needs a minimum version
NextGates ==
    \/ StartDescribeConfigs(HomogeneousClusters) /\ OthersUnchanged
    \/ StartGetClusterMetadata(HomogeneousClusters) /\ OthersUnchanged
    \/ OpFanout /\ OthersUnchanged
    \/ OpFinish /\ OthersUnchanged
    \/ StartCreateTopics(HomogeneousClusters) /\ UNCHANGED <<foVars, drVars, closeVars, asVars>>
    \/ CtlSend /\ UNCHANGED <<foVars, drVars, opVars, closeVars, asVars>>
    \/ CtlReceive /\ UNCHANGED <<foVars, drVars, opVars, closeVars, asVars>>
    \/ RefreshStart /\ UNCHANGED <<foVars, drVars, opVars, closeVars, asVars>>
    \/ RefreshIterate /\ UNCHANGED <<foVars, drVars, opVars, closeVars, asVars>>
    \/ CreateTopicsReturn /\ UNCHANGED <<foVars, drVars, closeVars, asVars>>

SpecGates == InitFixedController /\ [][NextGates]_vars

\* the clusters of the two lowest levels
OldClusters == {c \in HomogeneousClusters : c.negotiated <= 1}

\* the operations that put a timeout in their request, one call at a time
NextTimeouts ==
    \/ (d_pc = "idle" /\ StartTimedOperation(OldClusters))
          /\ UNCHANGED <<foVars, drVars, closeVars, asVars>>
    \/ CtlSend /\ UNCHANGED <<foVars, drVars, opVars, closeVars, asVars>>
    \/ CtlReceive /\ UNCHANGED <<foVars, drVars, opVars, closeVars, asVars>>
    \/ RefreshStart /\ UNCHANGED <<foVars, drVars, opVars, closeVars, asVars>>
    \/ RefreshIterate /\ UNCHANGED <<foVars, drVars, opVars, closeVars, asVars>>
    \/ CreateTopicsReturn /\ UNCHANGED <<foVars, drVars, closeVars, asVars>>
    \/ OpFinish /\ OthersUnchanged
    \/ (o_pc = "idle" /\ StartDeleteRecordsTimed)
          /\ UNCHANGED <<ctlVars, foVars, opVars, closeVars, asVars>>
    \/ GetLeaderForPartitions /\ UNCHANGED <<ctlVars, foVars, opVars, closeVars, asVars>>
    \/ DrSend /\ UNCHANGED <<ctlVars, foVars, opVars, closeVars, asVars>>
    \/ DrReceive /\ UNCHANGED <<ctlVars, foVars, opVars, closeVars, asVars>>
    \/ DrInterpret /\ UNCHANGED <<ctlVars, foVars, opVars, closeVars, asVars>>
    \/ DrFinish /\ UNCHANGED <<ctlVars, foVars, opVars, closeVars, asVars>>

SpecTimeouts == InitFixedController /\ [][NextTimeouts]_vars

\* the operations against a cluster of brokers of several levels
NextVersions ==
    \/ StartDescribeConfigs(MixedClusters) /\ OthersUnchanged
    \/ StartDescribeConsumerGroups(MixedClusters) /\ OthersUnchanged
    \/ OpFanout /\ OthersUnchanged
    \/ OpFinish /\ OthersUnchanged

SpecVersions == InitFixedController /\ [][NextVersions]_vars

\* close() between the calls of an operation
NextClose ==
    \/ (o_pc = "idle" /\ Close) /\ UNCHANGED <<ctlVars, foVars, drVars, opVars, asVars>>
    \/ StartGetClusterMetadata(HomogeneousClusters) /\ OthersUnchanged
    \/ OpFanout /\ OthersUnchanged
    \/ OpFinish /\ OthersUnchanged

SpecClose == InitFixedController /\ [][NextClose]_vars

(***************************************************************************)
(* Properties of the controller-bound call.                                *)
(***************************************************************************)
OkVersion(v) == ~TupleLess(v, <<0, 10, 0>>)

\* C1: whatever the broker answers, a controller-bound call sends its request
\* at most twice and starts the controller refresh at most once: tries starts
\* at 2, every send has cost one try, the request in flight was paid for by
\* exactly the tries used, and a refresh runs only while tries is non-zero.
C1_AtMostOneRetry ==
    /\ Len(c_sent) <= 2
    /\ c_refreshes <= 1
    /\ c_pc # "idle" => tries \in 0 .. InitialTries /\ Len(c_sent) <= InitialTries - tries
    /\ c_pc = "await" => Len(c_sent) = InitialTries - tries
    /\ c_pc \in {"refresh_start", "refresh"} => tries # 0

C1_Witness ==
    /\ c_pc = "done"
    /\ Len(c_sent) = 2
    /\ c_refreshes = 1
    /\ tries = 0

\* C2: NotControllerError in the first response, a first Metadata answer
\* naming a controller c # -1 of version >= 0.10.0, and a second response
\* carrying only NoError: two sends of the request, one Metadata send, the
\* second send goes to c, and the second response is the value returned.
C2_Scenario ==
    /\ Len(c_history) = 2
    /\ "NotControllerError" \in c_history[1].entries
    /\ md_first.controller_id # NoController
    /\ OkVersion(md_first.version)
    /\ c_history[2].entries \subseteq {"NoError"}
    /\ c_history[2].top = "NoError"

C2_RefreshAndResend ==
    C2_Scenario =>
        /\ c_pc = "done"
        /\ Len(c_sent) = 2
        /\ md_sends = 1
        /\ c_sent[2] = md_first.controller_id
        /\ c_outcome = "returned"
        /\ c_retval = c_response

C2_Witness ==
    /\ C2_Scenario
    /\ c_outcome = "returned"
    /\ c_sent[2] # c_sent[1]
    /\ c_history[2].entries = {"NoError"}

\* C3 as stated: NotControllerError carried by the first response and by the
\* response to the resend ends the call by raising NotControllerError.
C3_AsStated ==
    (/\ Len(c_history) = 2
     /\ "NotControllerError" \in c_history[1].entries
     /\ "NotControllerError" \in c_history[2].entries)
    => (/\ c_outcome = "raised"
        /\ c_error = "NotControllerError"
        /\ Len(c_sent) = 2
        /\ c_refreshes = 1)

\* C3 amended: when NotControllerError is the first error, in response order,
\* of the first response and of the response to the resend, the call ends by
\* raising NotControllerError; it returns no response, sends no third time
\* and refreshes no second time.
C3_Scenario ==
    /\ Len(c_history) = 2
    /\ c_history[1].first = "NotControllerError"
    /\ c_history[2].first = "NotControllerError"

C3_SecondNotControllerRaises ==
    C3_Scenario =>
        /\ c_pc = "done"
        /\ c_outcome = "raised"
        /\ c_error = "NotControllerError"
        /\ c_retval = NoResponse
        /\ Len(c_sent) = 2
        /\ c_refreshes = 1

C3_Witness ==
    /\ C3_Scenario
    /\ c_error = "NotControllerError"
    /\ md_sends = 1

\* C4: the cached controller id is never -1, and a controller-bound request
\* in flight was addressed to the id the latest successful refresh cached.
C4_ControllerRef ==
    /\ controller_id # NoController
    /\ controller_id \in Nodes
    /\ c_pc = "await" => c_sent[Len(c_sent)] = refreshed_id

C4_Witness ==
    /\ c_pc = "await"
    /\ Len(c_sent) = 2
    /\ c_sent[2] # c_sent[1]
    /\ md_first.controller_id = NoController
    /\ md_sends > 1

\* C22: an ElectLeaders response whose per-partition error codes are all
\* NoError or ElectionNotNeededError is returned by perform_leader_election
\* after one send, with no controller refresh and no exception.
C22_ElectionNotNeededIsSuccess ==
    (/\ c_op = "perform_leader_election"
     /\ c_history # <<>>
     /\ c_history[1].entries \subseteq {"NoError", "ElectionNotNeededError"}) =>
        /\ c_pc = "done"
        /\ c_outcome = "returned"
        /\ c_retval = c_response
        /\ Len(c_history) = 1
        /\ Len(c_sent) = 1
        /\ c_refreshes = 0
        /\ md_sends = 0

\* a response with ElectionNotNeededError for a partition has been returned
C22_Witness ==
    /\ c_op = "perform_leader_election"
    /\ c_outcome = "returned"
    /\ c_history[1].entries = {"NoError", "ElectionNotNeededError"}
    /\ c_retval.error_code = 0
    /\ Len(c_sent) = 1

\* C23 as stated: a controller-bound call never returns a response that
\* carries an error code other than NoError at any level, the top-level
\* error_code of an ElectLeaders response included (ElectionNotNeededError
\* excepted).
C23_AsStated ==
    c_outcome = "returned" =>
        /\ Carried(c_retval).top = "NoError"
        /\ Carried(c_retval).entries \subseteq {"NoError", "ElectionNotNeededError"}

\* C29 as stated: a response whose first entry other than NoError, in
\* response order, is not NotControllerError ends the call: it raises the
\* error of that entry, with no refresh and no resend after that response.
C29_AsStated ==
    \A k \in DOMAIN c_history :
        c_history[k].first_error \notin {"NoError", "NotControllerError"} =>
            /\ k = Len(c_history)
            /\ c_pc = "done"
            /\ c_outcome = "raised"
            /\ c_error = c_history[k].first_error
            /\ Len(c_sent) = k
            /\ c_refreshes = k - 1

\* C29 amended: a response whose first entry that the parser does not pass
\* over (NoError, and ElectionNotNeededError in an ElectLeaders response), in
\* response order, is not NotControllerError ends the call: it raises the
\* error of that entry, with no refresh and no resend after that response,
\* also when a later entry carries NotControllerError.
C29_FirstFailureRaises ==
    \A k \in DOMAIN c_history :
        c_history[k].first \notin {"NoError", "NotControllerError"} =>
            /\ k = Len(c_history)
            /\ c_pc = "done"
            /\ c_outcome = "raised"
            /\ c_error = c_history[k].first
            /\ c_retval = NoResponse
            /\ Len(c_sent) = k
            /\ c_refreshes = k - 1

\* the first response carries another error before NotControllerError
C29_Witness ==
    /\ Len(c_history) = 1
    /\ c_history[1].first = "TopicAlreadyExistsError"
    /\ "NotControllerError" \in c_history[1].entries
    /\ c_error = "TopicAlreadyExistsError"
    /\ c_refreshes = 0

\* _refresh_controller_id is running
Refreshing == c_pc \in {"refresh_start", "refresh"}

\* C30: the controller refresh terminates. A pass of its loop that stays in
\* the loop (the Metadata response said controller_id -1) moves the clock
\* towards the deadline; NodeNotReadyError is raised only once the deadline
\* has passed, every answer having been -1; a refresh that ends without an
\* exception has cached the id the response named; and a running refresh
\* always comes to an end.
C30_RefreshTerminates ==
    /\ [][(c_pc = "refresh" /\ c_pc' = "refresh") =>
              /\ elapsed' > elapsed
              /\ controller_id' = controller_id]_vars
    /\ [][(c_pc = "refresh" /\ c_pc' # "refresh" /\ c_outcome' # "raised") =>
              /\ refreshed_id' \in Nodes
              /\ controller_id' = refreshed_id']_vars
    /\ [](c_error = "NodeNotReadyError" =>
              /\ ~(elapsed < RefreshTimeoutMs \div 1000)
              /\ md_sends > 0
              /\ md_first.controller_id = NoController)
    /\ Refreshing ~> ~Refreshing

\* the refresh gave up at the deadline after more than one Metadata request
C30_Witness ==
    /\ c_error = "NodeNotReadyError"
    /\ md_sends > 1
    /\ md_first.controller_id = NoController

(***************************************************************************)
(* Properties of the fan-out executor.                                     *)
(***************************************************************************)
AllSucceeded == \A k \in DOMAIN f_futures : f_futures[k].state = "succeeded"

\* the response the broker gave to the request sent with correlation id c
AnswerTo(c) ==
    CHOOSE v \in {f_futures[k].value : k \in DOMAIN f_futures} :
        "correlation_id" \in DOMAIN v /\ v.correlation_id = c

\* C5: whatever the order in which the futures complete, send_requests, when
\* all futures succeed, returns a list as long as its input whose i-th
\* element is response_fn of the response to the i-th input request.
C5_InputOrder ==
    (f_op = "send_requests" /\ f_pc = "done") =>
        /\ (Len(f_futures) = Len(f_input) /\ AllSucceeded) <=> f_outcome = "returned"
        /\ f_outcome = "returned" =>
              /\ Len(f_result) = Len(f_input)
              /\ \A i \in DOMAIN f_input :
                    /\ f_futures[i].request = f_input[i].request
                    /\ f_result[i] =
                          response_fn(f_op, AnswerTo(f_futures[i].correlation_id))

C5_Witness ==
    /\ f_op = "send_requests"
    /\ f_pc = "done"
    /\ f_outcome = "returned"
    /\ Len(f_input) = 2
    /\ f_order = <<2, 1>>
    /\ f_result[1] # f_result[2]
    /\ f_input[1].request # f_input[2].request

\* C6 as stated: a failure is raised out of the fan-out only once every other
\* submitted future has succeeded or failed, never while one is pending.
C6_AsStated ==
    (f_pc = "done" /\ f_outcome = "raised" /\ f_raised_in = "wait") =>
        \A k \in DOMAIN f_futures : f_futures[k].state # "pending"

\* C7 as stated: a target that cannot be made ready costs only its own
\* request: the connection error is not raised out of the submission loop,
\* and the requests for the other targets are still submitted.
C7_AsStated ==
    (f_ready_failed /\ Len(f_input) >= 2) =>
        /\ f_raised_in # "submit"
        /\ f_pc \in {"wait", "done"} => Len(f_futures) = Len(f_input)

\* C8: whatever the order in which the FindCoordinator responses arrive,
\* _find_coordinator_ids sends one FindCoordinator request per listed group
\* id, built for that group id, and maps each group id to the coordinator_id
\* of the response to a request built for that same group id.
C8_CoordinatorOfGroup ==
    f_op = "_find_coordinator_ids" =>
        /\ Len(f_futures) <= Len(f_group_ids)
        /\ \A i \in DOMAIN f_futures :
              /\ f_futures[i].request.api = "FindCoordinatorRequest"
              /\ f_futures[i].request.group_id = f_group_ids[i]
        /\ (f_pc = "done" /\ f_outcome = "returned") =>
              /\ Len(f_futures) = Len(f_group_ids)
              /\ DOMAIN f_result = Range(f_group_ids)
              /\ \A g \in DOMAIN f_result :
                    \E i \in DOMAIN f_group_ids :
                        /\ f_group_ids[i] = g
                        /\ f_result[g] =
                              AnswerTo(f_futures[i].correlation_id).coordinator_id

C8_Witness ==
    /\ f_op = "_find_coordinator_ids"
    /\ f_pc = "done"
    /\ f_outcome = "returned"
    /\ f_group_ids = <<"g1", "g2">>
    /\ f_order = <<2, 1>>
    /\ f_result["g1"] # f_result["g2"]

(***************************************************************************)
(* Properties of delete_records.                                           *)
(***************************************************************************)
\* the leader the Metadata response of this call names for a topic partition
LeaderOf(tp) ==
    LET k == CHOOSE j \in DOMAIN d_metadata :
                 TP(d_metadata[j].topic, d_metadata[j].partition) = tp
    IN d_metadata[k].leader

\* the (topic, partition, offset) listings of a request, one per listed entry
Listings(request) ==
    {<<k, j>> \in (DOMAIN request.topics) \X (1 .. Len(TPSeq)) :
        j \in DOMAIN request.topics[k].partitions}

Listed(request, l) ==
    <<request.topics[l[1]].topic, request.topics[l[1]].partitions[l[2]][1],
      request.topics[l[1]].partitions[l[2]][2]>>

\* the send loop of the call has sent to every entry of leader2partitions
AllSent == d_pc = "done" /\ d_stage = "interpret"

\* C9: without partition_leader_id, the DeleteRecords requests go to distinct
\* leaders; the request to leader L lists exactly the requested partitions
\* that the Metadata response says L leads, each once, under its own topic and
\* with its own requested offset; and once the loop is over every leader of a
\* requested partition has had its request, so that every requested partition
\* is in exactly one request.
C9_OneRequestPerLeader ==
    (partition_leader_id = None /\ d_requests # <<>>) =>
        /\ \A i, j \in DOMAIN d_requests :
              d_requests[i].node_id = d_requests[j].node_id => i = j
        /\ \A i \in DOMAIN d_requests :
              LET request == d_requests[i].request IN
              /\ {Listed(request, l) : l \in Listings(request)} =
                    {<<tp.topic, tp.partition, records_to_delete[tp]>> :
                        tp \in {q \in DOMAIN records_to_delete :
                                   LeaderOf(q) = d_requests[i].node_id}}
              /\ \A l, m \in Listings(request) :
                    Listed(request, l) = Listed(request, m) => l = m
        /\ AllSent =>
              /\ {d_requests[i].node_id : i \in DOMAIN d_requests} =
                    {LeaderOf(tp) : tp \in DOMAIN records_to_delete}
              /\ \A tp \in DOMAIN records_to_delete :
                    Cardinality({<<i, l>> \in (DOMAIN d_requests) \X
                                     ((1 .. Len(TPSeq)) \X (1 .. Len(TPSeq))) :
                                    /\ l \in Listings(d_requests[i].request)
                                    /\ Listed(d_requests[i].request, l) =
                                          <<tp.topic, tp.partition,
                                            records_to_delete[tp]>>}) = 1

\* two leaders, one of them leading partitions of two topics, all requests sent
C9_Witness ==
    /\ partition_leader_id = None
    /\ AllSent
    /\ Len(d_requests) = 2
    /\ \E i \in DOMAIN d_requests : Len(d_requests[i].request.topics) = 2
    /\ \E tp, tq \in DOMAIN records_to_delete :
          /\ tp.topic = tq.topic
          /\ LeaderOf(tp) # LeaderOf(tq)
          /\ records_to_delete[tp] # records_to_delete[tq]

\* the partitions with a non-zero error code in some response of the call
FailedPartitions ==
    {tp \in AllTPs :
        \E i \in DOMAIN d_responses : \E k \in DOMAIN d_responses[i].topics :
            \E j \in DOMAIN d_responses[i].topics[k].partitions :
                /\ d_responses[i].topics[k].name = tp.topic
                /\ d_responses[i].topics[k].partitions[j].partition_index = tp.partition
                /\ d_responses[i].topics[k].partitions[j].error_code # 0}

ErrorCodeOf(tp) ==
    LET i == CHOOSE i \in DOMAIN d_responses :
                 \E k \in DOMAIN d_responses[i].topics :
                     \E j \in DOMAIN d_responses[i].topics[k].partitions :
                         /\ d_responses[i].topics[k].name = tp.topic
                         /\ d_responses[i].topics[k].partitions[j].partition_index =
                               tp.partition
        k == CHOOSE k \in DOMAIN d_responses[i].topics :
                 d_responses[i].topics[k].name = tp.topic
        j == CHOOSE j \in DOMAIN d_responses[i].topics[k].partitions :
                 d_responses[i].topics[k].partitions[j].partition_index = tp.partition
    IN d_responses[i].topics[k].partitions[j].error_code

\* C10: once every response is in, delete_records returns exactly when no
\* partition of any response has a non-zero error code; with exactly one such
\* partition it raises the error class of that code, in a message naming the
\* partition; with two or more it raises BrokerResponseError, naming every
\* failed topic and partition with the name of its error.
C10_ErrorAggregation ==
    AllSent =>
        /\ d_verdict.outcome = "returned" <=> FailedPartitions = {}
        /\ d_verdict.outcome \in {"returned", "raised"}
        /\ Cardinality(FailedPartitions) = 1 =>
              \A tp \in FailedPartitions :
                  /\ d_verdict.outcome = "raised"
                  /\ d_verdict.error = for_code(ErrorCodeOf(tp))
                  /\ d_verdict.named = {<<tp.topic, tp.partition>>}
        /\ Cardinality(FailedPartitions) >= 2 =>
              /\ d_verdict.outcome = "raised"
              /\ d_verdict.error = "BrokerResponseError"
              /\ d_verdict.named =
                    {<<tp.topic, tp.partition, for_code(ErrorCodeOf(tp))>> :
                        tp \in FailedPartitions}

\* two partitions failed with different codes, in responses of two leaders
C10_Witness ==
    /\ AllSent
    /\ Len(d_responses) = 2
    /\ Cardinality(FailedPartitions) = 2
    /\ \E tp, tq \in FailedPartitions : ErrorCodeOf(tp) # ErrorCodeOf(tq)
    /\ d_verdict.error = "BrokerResponseError"

\* the leader lookup of the call has had its Metadata response
MetadataReceived ==
    /\ partition_leader_id = None
    /\ d_pc \in {"send", "await", "done"}
    /\ ~(d_stage = "leaders" /\ d_verdict.error \in {"KafkaConnectionError", "FutureFailed"})

\* the requested partitions that the Metadata response does not list
AbsentPartitions ==
    {tp \in DOMAIN records_to_delete :
        \A k \in DOMAIN d_metadata : TP(d_metadata[k].topic, d_metadata[k].partition) # tp}

\* C11: when a requested partition is absent from the Metadata response,
\* delete_records raises UnknownTopicOrPartitionError naming every absent
\* partition and sends no DeleteRecords request, not even for the partitions
\* that were found.
C11_AbsentPartitionsRaise ==
    (MetadataReceived /\ AbsentPartitions # {}) =>
        /\ d_pc = "done"
        /\ d_verdict.outcome = "raised"
        /\ d_verdict.error = "UnknownTopicOrPartitionError"
        /\ d_verdict.named = {<<tp.topic, tp.partition>> : tp \in AbsentPartitions}
        /\ d_requests = <<>>
        /\ d_responses = <<>>

\* three partitions requested, one found and two absent
C11_Witness ==
    /\ MetadataReceived
    /\ Cardinality(DOMAIN records_to_delete) = 3
    /\ Cardinality(AbsentPartitions) = 2
    /\ d_verdict.error = "UnknownTopicOrPartitionError"
    /\ d_requests = <<>>

(***************************************************************************)
(* Properties of the operations.                                           *)
(***************************************************************************)
\* the operation got as far as handing its requests to send_requests
RequestsBuilt ==
    \/ o_pc = "fanout"
    \/ o_pc = "done" /\ o_error \notin {"IncompatibleBrokerVersion", "ValueError"}

\* the requests sent so far are the first of o_requests, each to its node,
\* or to some broker when it has none
SentAsBuilt ==
    /\ Len(o_sent) <= Len(o_requests)
    /\ \A k \in DOMAIN o_sent :
          /\ o_sent[k].request = o_requests[k].request
          /\ IF o_requests[k].node_id = None
             THEN o_sent[k].least_loaded /\ o_sent[k].node_id \in Nodes
             ELSE ~o_sent[k].least_loaded /\ o_sent[k].node_id = o_requests[k].node_id

\* C12: describe_configs sends one request per BROKER resource, holding that
\* resource alone and addressed to the node whose id is the integer its name
\* spells, and one request with all other resources to a least-loaded node
\* when there are any: as many requests as BROKER resources, plus one if
\* there is another resource.
C12_DescribeConfigsRouting ==
    o_op = "describe_configs" =>
        LET resources == o_args.config_resources
            brokers == SelectSeq(resources, LAMBDA r : r.resource_type = "BROKER")
            others == SelectSeq(resources, LAMBDA r : r.resource_type # "BROKER")
            n == Len(brokers) + (IF Len(others) > 0 THEN 1 ELSE 0)
        IN /\ RequestsBuilt =>
                /\ Len(o_requests) = n
                /\ \A k \in DOMAIN brokers :
                      /\ o_requests[k].request.api = "DescribeConfigsRequest"
                      /\ o_requests[k].request.resources =
                            <<<<"BROKER", brokers[k].name, NoneList>>>>
                      /\ brokers[k].name = "1" => o_requests[k].node_id = 1
                      /\ brokers[k].name = "2" => o_requests[k].node_id = 2
                /\ Len(others) > 0 =>
                      /\ o_requests[n].node_id = None
                      /\ o_requests[n].request.resources =
                            [k \in DOMAIN others |->
                                <<others[k].resource_type, others[k].name, NoneList>>]
                /\ SentAsBuilt
           /\ ~RequestsBuilt => o_sent = <<>>
           /\ o_outcome = "returned" => Len(o_sent) = n /\ Len(o_result) = n

\* a BROKER resource after a TOPIC resource: two requests, the first to node
\* 2, the second to a least-loaded node
C12_Witness ==
    /\ o_op = "describe_configs"
    /\ o_outcome = "returned"
    /\ o_args.config_resources = <<ConfigResource("TOPIC", "t", NoneList), ConfigResource("BROKER", "2", NoneList)>>
    /\ Len(o_sent) = 2
    /\ o_sent[1].node_id = 2
    /\ o_sent[2].least_loaded

\* the requests of an API among those sent, in the order they were sent
SentOfApi(api) == SelectSeq(o_sent, LAMBDA s : s.request.api = api)

\* the requests of an API sent so far are the first of o_requests, each to
\* its node
SentOfApiAsBuilt(api) ==
    LET sent == SentOfApi(api) IN
    /\ Len(sent) <= Len(o_requests)
    /\ \A k \in DOMAIN sent :
          /\ sent[k].request = o_requests[k].request
          /\ sent[k].node_id = o_requests[k].node_id
          /\ ~sent[k].least_loaded

\* the coordinator that the FindCoordinator responses of this call name for
\* a group
CoordinatorOf(group_id) ==
    o_items[CHOOSE k \in DOMAIN o_items : o_items[k].key = group_id].value

\* C13 as stated: for every list of group ids, describe_consumer_groups
\* without a coordinator override sends one FindCoordinator per listed
\* group, then one DescribeGroups per listed group, to the coordinator of
\* that group and holding that group alone, and returns one description per
\* listed group id, the i-th describing the i-th id.
C13_AsStated ==
    (/\ o_op = "describe_consumer_groups"
     /\ o_args.group_coordinator_id = None
     /\ o_outcome = "returned") =>
        LET group_ids == o_args.group_ids
            found == SentOfApi("FindCoordinatorRequest")
            described == SentOfApi("DescribeGroupsRequest")
        IN /\ Len(found) = Len(group_ids)
           /\ \A i \in DOMAIN found : found[i].request.group_id = group_ids[i]
           /\ Len(described) = Len(group_ids)
           /\ \A i \in DOMAIN described :
                 /\ described[i].request.groups = <<group_ids[i]>>
                 /\ described[i].node_id = CoordinatorOf(group_ids[i])
           /\ Len(o_result) = Len(group_ids)
           /\ \A i \in DOMAIN o_result : o_result[i].group = group_ids[i]

\* the group results of the DeleteGroups responses of the call
DeletedGroupResults ==
    Flatten([k \in DOMAIN o_responses |-> o_responses[k].results])

\* C14: delete_consumer_groups sends one DeleteGroups request per distinct
\* coordinator, holding exactly the input groups of that coordinator, and
\* returns the (group_id, error) pair of every group result of the
\* responses; an error code of a group is returned, never raised.
C14_DeleteGroupsPerCoordinator ==
    (o_op = "delete_consumer_groups" /\ o_phase = "main") =>
        LET group_ids == o_args.group_ids
            answered == o_pc = "done"
                        /\ o_error \notin {"KafkaConnectionError", "FutureFailed"}
        IN /\ \A i, j \in DOMAIN o_requests :
                 o_requests[i].node_id = o_requests[j].node_id => i = j
           /\ IF o_args.group_coordinator_id = None
              THEN {o_requests[k].node_id : k \in DOMAIN o_requests} =
                      {CoordinatorOf(g) : g \in Range(group_ids)}
              ELSE {o_requests[k].node_id : k \in DOMAIN o_requests} =
                      {o_args.group_coordinator_id}
           /\ \A k \in DOMAIN o_requests :
                 /\ o_requests[k].request.api = "DeleteGroupsRequest"
                 /\ Range(o_requests[k].request.groups_names) =
                       {g \in Range(group_ids) : CoordinatorOf(g) = o_requests[k].node_id}
           /\ SentOfApiAsBuilt("DeleteGroupsRequest")
           /\ answered =>
                 /\ o_outcome = "returned"
                 /\ Len(SentOfApi("DeleteGroupsRequest")) = Len(o_requests)
                 /\ Len(o_result) = Len(DeletedGroupResults)
                 /\ \A i \in DOMAIN o_result :
                       o_result[i] = <<DeletedGroupResults[i][1],
                                       for_code(DeletedGroupResults[i][2])>>

\* two groups of two coordinators: two requests, and the error of the
\* second group in the returned list
C14_Witness ==
    /\ o_op = "delete_consumer_groups"
    /\ o_args.group_coordinator_id = None
    /\ o_outcome = "returned"
    /\ Len(SentOfApi("FindCoordinatorRequest")) = 2
    /\ Len(SentOfApi("DeleteGroupsRequest")) = 2
    /\ o_result = <<<<"g1", "NoError">>, <<"g2", "NotCoordinatorForGroupError">>>>

\* the groups the ListGroups responses of the call report
ReportedToCall ==
    UNION {Range(o_responses[k].groups) : k \in DOMAIN o_responses}

\* C15: list_consumer_groups sends one ListGroups request to each broker id
\* of the list it is given, or to every broker of the cluster when given
\* none; when every response carries NoError it returns the groups of all
\* responses, each once; an error code in a response raises instead.
C15_ListGroupsUnion ==
    o_op = "list_consumer_groups" =>
        LET broker_ids == o_args.broker_ids
            answered == o_pc = "done"
                        /\ o_error \notin {"KafkaConnectionError", "FutureFailed"}
        IN /\ IF broker_ids.none
              THEN /\ Len(o_requests) = NumNodes
                   /\ \A b \in Nodes :
                         Cardinality({k \in DOMAIN o_requests :
                                         o_requests[k].node_id = b}) = 1
              ELSE /\ Len(o_requests) = Len(broker_ids.items)
                   /\ \A k \in DOMAIN o_requests :
                         o_requests[k].node_id = broker_ids.items[k]
           /\ \A k \in DOMAIN o_requests : o_requests[k].request.api = "ListGroupsRequest"
           /\ SentAsBuilt
           /\ answered =>
                 /\ Len(o_sent) = Len(o_requests)
                 /\ Len(o_responses) = Len(o_requests)
                 /\ IF \A k \in DOMAIN o_responses : o_responses[k].error_code = 0
                    THEN /\ o_outcome = "returned"
                         /\ Range(o_result) = ReportedToCall
                         /\ \A i, j \in DOMAIN o_result : o_result[i] = o_result[j] => i = j
                    ELSE /\ o_outcome = "raised"
                         /\ \E k \in DOMAIN o_responses :
                               /\ o_responses[k].error_code # 0
                               /\ o_error = for_code(o_responses[k].error_code)

\* every broker of the cluster asked, one group reported by two of them
C15_Witness ==
    /\ o_op = "list_consumer_groups"
    /\ o_args.broker_ids.none
    /\ o_outcome = "returned"
    /\ Len(o_sent) = NumNodes
    /\ o_responses[1].groups # <<>>
    /\ o_responses[1].groups = o_responses[2].groups
    /\ Len(o_result) = Len(o_responses[1].groups)

\* the operation asks for a feature that the negotiated version lacks
FeatureBelowGate ==
    \/ /\ o_op = "create_topics"
       /\ o_args.validate_only
       /\ api_version(3, o_cluster) = 0
    \/ /\ o_op = "_get_cluster_metadata"
       /\ o_args.auto_topic_creation
       /\ api_version(MetadataMaxVersion, o_cluster) <= 3
    \/ /\ o_op = "describe_configs"
       /\ o_args.include_synonyms
       /\ api_version(2, o_cluster) = 0

\* C16: validate_only with CreateTopics v0, auto_topic_creation with
\* Metadata v0 to v3 and include_synonyms with DescribeConfigs v0 raise
\* IncompatibleBrokerVersion, and no request of the operation is sent.
C16_GatesRaiseBeforeSending ==
    FeatureBelowGate =>
        /\ o_pc = "done"
        /\ o_outcome = "raised"
        /\ o_error = "IncompatibleBrokerVersion"
        /\ o_sent = <<>>
        /\ o_requests = <<>>
        /\ c_pc = "idle"
        /\ c_sent = <<>>

\* auto_topic_creation asked of a client that negotiated Metadata v3
C16_Witness ==
    /\ o_op = "_get_cluster_metadata"
    /\ o_args.auto_topic_creation
    /\ api_version(MetadataMaxVersion, o_cluster) = 3
    /\ o_error = "IncompatibleBrokerVersion"
    /\ o_sent = <<>>

\* the call ended with an error of the network or of a broker's answer, not
\* with one that the building of a request raises
ExchangeFailed ==
    /\ o_outcome = "raised"
    /\ o_error \notin {"IncompatibleBrokerVersion", "ValueError"}

\* C17 as stated: list_consumer_group_offsets with partitions=None and a
\* negotiated OffsetFetch version below 2 fails with
\* IncompatibleBrokerVersion and sends no OffsetFetch request.
C17_AsStated ==
    (/\ o_op = "list_consumer_group_offsets"
     /\ o_args.partitions.none
     /\ api_version(5, o_cluster) < 2
     /\ o_pc = "done"
     /\ ~ExchangeFailed) =>
        /\ o_outcome = "raised"
        /\ o_error = "IncompatibleBrokerVersion"
        /\ SentOfApi("OffsetFetchRequest") = <<>>

\* C18 as stated: describe_consumer_groups with
\* include_authorized_operations=True and a negotiated DescribeGroups
\* version below 3 fails with IncompatibleBrokerVersion, and the flag of a v3
\* request is the value the caller passed.
C18_AsStated ==
    o_op = "describe_consumer_groups" =>
        /\ (/\ o_args.include_authorized_operations
            /\ o_args.group_ids # <<>>
            /\ api_version(3, o_cluster) < 3
            /\ o_pc = "done"
            /\ ~ExchangeFailed) =>
                /\ o_outcome = "raised"
                /\ o_error = "IncompatibleBrokerVersion"
        /\ \A k \in DOMAIN o_sent :
              (o_sent[k].request.api = "DescribeGroupsRequest"
               /\ o_sent[k].request.version = 3) =>
                  o_sent[k].request.include_authorized_operations =
                      o_args.include_authorized_operations

\* C19 as stated: every request sent to a broker is built at a version that
\* the broker supports, in a cluster whose brokers support different
\* maximum versions.
C19_AsStated ==
    \A k \in DOMAIN o_sent :
        o_sent[k].node_id \in Nodes =>
            o_sent[k].request.version <= o_cluster.broker_level[o_sent[k].node_id]

\* C20: over any sequence of close() calls the metrics collector and the
\* broker client are each closed once, by the first call, and the instance
\* is closed from then on: a later call changes nothing.
C20_CloseIdempotent ==
    /\ close_calls = 0 => ~_closed /\ metrics_closes = 0 /\ client_closes = 0
    /\ close_calls > 0 => _closed /\ metrics_closes = 1 /\ client_closes = 1

\* close() called a second time
C20_Witness ==
    /\ close_calls = 2
    /\ _closed
    /\ metrics_closes = 1
    /\ client_closes = 1

\* the groups that the coordinators known to the running call are of
KnownGroups == {o_items[k].key : k \in DOMAIN o_items}

\* C24 as stated: the client keeps the coordinators it has found: the
\* entries that the FindCoordinator responses of a call made are still held
\* once the call has returned, and once a DescribeGroups response has
\* answered NotCoordinator for a group no entry is held for that group.
C24_AsStated ==
    /\ [][(o_pc = "done" /\ o_outcome = "returned" /\ o_pc' = "idle") =>
              o_items' = o_items]_vars
    /\ []((/\ o_pc = "done"
            /\ o_op = "describe_consumer_groups"
            /\ o_args.group_coordinator_id = None) =>
              \A k \in DOMAIN o_responses :
                  (/\ o_responses[k].api = "DescribeGroupsResponse"
                   /\ for_code(o_responses[k].groups[1].error_code) =
                          "NotCoordinatorForGroupError") =>
                      o_responses[k].groups[1].group \notin KnownGroups)

\* the resources of the DescribeConfigs requests that the call has built
BuiltResources ==
    UNION {Range(o_requests[k].request.resources) : k \in DOMAIN o_requests}

\* C25 as stated: in the DescribeConfigs requests of a call, a resource
\* whose configs is None has a null key list, and a resource whose configs is
\* an empty map has an empty key list, which is not the null one.
C25_AsStated ==
    (o_op = "describe_configs" /\ o_requests # <<>>) =>
        \A k \in DOMAIN o_args.config_resources :
            LET r == o_args.config_resources[k]
                keys == IF r.configs.none THEN NoneList ELSE ListArg(<<>>)
            IN (r.configs.none \/ r.configs.items = <<>>) =>
                  <<r.resource_type, r.name, keys>> \in BuiltResources

\* C26 as stated: delete_records submits the DeleteRecords request of every
\* leader before it waits for the response to any of them.
C26_AsStated ==
    (d_pc = "await" \/ d_responses # <<>>) =>
        Len(d_requests) = Len(leader2partitions)

(***************************************************************************)
(* Properties of the closed instance.                                      *)
(***************************************************************************)
\* C21 as stated: an operation called after close() has returned raises
\* without calling await_ready or send on the broker client.
C21_AsStated ==
    (_closed /\ o_pc = "done") =>
        /\ o_outcome = "raised"
        /\ o_awaited = <<>>
        /\ o_sent = <<>>

(***************************************************************************)
(* Properties of RoundRobinPartitionAssignor.assign.                       *)
(***************************************************************************)
\* how many partitions the returned assignment gives to its k-th member
AssignedCount(k) ==
    LET items == a_verdict.protocol_assignment[k].assignment
    IN Len(Flatten([i \in DOMAIN items |-> items[i][2]]))

IdenticalSubscriptions ==
    \A i, j \in DOMAIN group_subscriptions :
        group_subscriptions[i].topics = group_subscriptions[j].topics

\* C27 as stated: when all members have the same subscription, whatever mix
\* of static and dynamic members and whatever their order in
\* group_subscriptions, assign returns an assignment in which the numbers of
\* partitions of any two members differ by at most one.
C27_AsStated ==
    (a_pc = "done" /\ IdenticalSubscriptions) =>
        /\ a_verdict.outcome = "returned"
        /\ \A i, j \in DOMAIN group_subscriptions :
              AssignedCount(i) - AssignedCount(j) <= 1

\* the subscriptions and the cluster of the docstring: C0: {t0}, C1: {t0, t1},
\* C2: {t0, t1, t2}; t0 with one partition, t1 with two, t2 with three
DocstringExample ==
    /\ group_subscriptions = <<Subscription(0, None, {0}), Subscription(1, None, {0, 1}),
                               Subscription(2, None, {0, 1, 2})>>
    /\ a_cluster = [topic \in TopicIds |-> topic + 1]

\* C28 as stated: assign ends without an error also when the subscriptions
\* differ, every partition it assigns goes to a member subscribed to the
\* topic of the partition, and the example of the docstring yields
\* C0: [t0p0], C1: [t1p0], C2: [t1p1, t2p0, t2p1, t2p2].
C28_AsStated ==
    a_pc = "done" =>
        /\ a_verdict.outcome = "returned"
        /\ \A k \in DOMAIN a_verdict.protocol_assignment :
              \A i \in DOMAIN a_verdict.protocol_assignment[k].assignment :
                  a_verdict.protocol_assignment[k].assignment[i][1]
                      \in group_subscriptions[k].topics
        /\ DocstringExample =>
              a_verdict.protocol_assignment =
                  <<[member_id |-> 0, assignment |-> <<<<0, <<0>>>>>>],
                    [member_id |-> 1, assignment |-> <<<<1, <<0>>>>>>],
                    [member_id |-> 2, assignment |-> <<<<1, <<1>>>>, <<2, <<0, 1, 2>>>>>>]>>
(***************************************************************************)
(* Properties of the controller refresh.                                   *)
(***************************************************************************)
\* C31: when the Metadata response of a refresh names a broker whose reported
\* version is below (0, 10, 0), the refresh raises IncompatibleBrokerVersion
\* and leaves the cached controller id as it was.
C31_OldBrokerNeverCached ==
    [][(/\ c_pc = "refresh"
        /\ c_pc' # "refresh"
        /\ md_last'.controller_id # NoController
        /\ TupleLess(md_last'.version, <<0, 10, 0>>))
       => (/\ c_outcome' = "raised"
           /\ c_error' = "IncompatibleBrokerVersion"
           /\ controller_id' = controller_id
           /\ refreshed_id' = refreshed_id)]_vars

\* a refresh was answered with a broker older than 0.10 that is not the
\* cached controller, and has raised
C31_Witness ==
    /\ c_pc = "done"
    /\ c_error = "IncompatibleBrokerVersion"
    /\ md_last.controller_id \in Nodes \ {controller_id}
    /\ md_last.version = <<0, 9, 0>>
(***************************************************************************)
(* Properties of the group operations answered with NotCoordinator.        *)
(***************************************************************************)
\* the requests that go to the coordinator of a group
GroupApis == {"DescribeGroupsRequest", "OffsetFetchRequest"}

\* a DescribeGroups or OffsetFetch response that carries NotCoordinator
NotCoordinatorAnswer(response) ==
    \/ /\ response.api = "DescribeGroupsResponse"
       /\ for_code(response.groups[1].error_code) = "NotCoordinatorForGroupError"
    \/ /\ response.api = "OffsetFetchResponse"
       /\ response.version > 1
       /\ for_code(response.error_code) = "NotCoordinatorForGroupError"

NotCoordinatorAnswered ==
    /\ o_pc = "done"
    /\ o_op \in {"describe_consumer_groups", "list_consumer_group_offsets"}
    /\ \E k \in DOMAIN o_responses : NotCoordinatorAnswer(o_responses[k])

LeaderFound(tp) ==
    \E k \in DOMAIN d_metadata :
        /\ TP(d_metadata[k].topic, d_metadata[k].partition) = tp
        /\ d_metadata[k].leader # -1

\* C33 as stated: _get_leader_for_partitions raises
\* UnknownTopicOrPartitionError when the Metadata response names no leader
\* for a requested partition, the leader id -1 included, so that
\* delete_records goes on to its requests only with a leader for every
\* partition and addresses no request to node -1.
C33_AsStated ==
    partition_leader_id = None =>
        /\ d_pc \in {"send", "await"} =>
              \A tp \in DOMAIN records_to_delete : LeaderFound(tp)
        /\ (d_pc = "send" /\ d_k \in DOMAIN leader2partitions) =>
              leader2partitions[d_k].key # -1
        /\ \A k \in DOMAIN d_requests : d_requests[k].node_id # -1
        /\ (d_pc = "done" /\ d_stage = "leaders"
                /\ d_verdict.error \notin {"KafkaConnectionError", "FutureFailed"}) =>
              /\ d_verdict.error = "UnknownTopicOrPartitionError"
              /\ \E tp \in DOMAIN records_to_delete : ~LeaderFound(tp)
(***************************************************************************)
(* Properties of the timeout that the operations forward.                  *)
(***************************************************************************)
\* the timeout on the wire for an argument timeout_ms, as stated: the
\* configured request_timeout_ms for None, the caller's value otherwise
TimeoutAsStated(timeout_ms, wire) ==
    IF timeout_ms.none THEN wire = request_timeout_ms ELSE wire = timeout_ms.value

\* C34 as stated: the timeout of the request of create_topics,
\* delete_topics, create_partitions, perform_leader_election and
\* delete_records is request_timeout_ms when the caller passed
\* timeout_ms=None, and the caller's value for every other timeout_ms, 0
\* included.
C34_AsStated ==
    /\ o_op \in ControllerOps =>
          \A k \in DOMAIN o_requests :
              TimeoutAsStated(o_args.timeout_ms, o_requests[k].request.timeout)
    /\ \A k \in DOMAIN d_requests :
          TimeoutAsStated(d_timeout_ms, d_requests[k].request.timeout_ms)
(***************************************************************************)
(* Properties of the protocol registry.                                    *)
(***************************************************************************)
\* C35 as stated: the class at index v of a versioned list is of the kind
\* of the list and has API_VERSION v: every request that an operation sends
\* at the negotiated version v carries api_version v and is paired with the
\* response class of version v.
C35_AsStated ==
    \A k \in DOMAIN o_sent :
        LET request == o_sent[k].request IN
        request.api \in DOMAIN VersionedLists =>
            LET response_type == RequestClass(request).RESPONSE_TYPE IN
            /\ RequestClass(request).base = "Request"
            /\ WireVersion(request) = request.version
            /\ response_type =
                  VersionedLists[ResponseListOf[request.api]][request.version + 1]
            /\ ProtocolClasses[response_type].base = "Response"
            /\ ProtocolClasses[response_type].API_VERSION = request.version
\* C38: a refresh of the controller that ends raised, at any point, leaves
\* the cached controller id as it was, and the cached id changes only in a
\* step of the refresh that was answered with a controller whose version is
\* accepted, to the id of that answer.
C38_FailedRefreshKeepsId ==
    /\ [][(c_pc \in {"refresh_start", "refresh"} /\ c_outcome' = "raised") =>
              (controller_id' = controller_id /\ refreshed_id' = refreshed_id)]_vars
    /\ [][controller_id' # controller_id =>
              (/\ c_pc = "refresh"
               /\ c_outcome' # "raised"
               /\ controller_id' = md_last'.controller_id
               /\ controller_id' \in Nodes
               /\ ~TupleLess(md_last'.version, <<0, 10, 0>>))]_vars

\* a refresh that got no controller before its deadline has raised, and the
\* cached id is the one of before
C38_Witness ==
    /\ c_pc = "done"
    /\ c_error = "NodeNotReadyError"
    /\ md_sends > 0
    /\ md_last.controller_id = NoController
    /\ controller_id = 1
    /\ c_sent = <<1>>

(***************************************************************************)
(* Properties of the end of _send_request_to_controller.                   *)
(***************************************************************************)
\* C37: the RuntimeError after the loop of _send_request_to_controller is
\* never raised: the loop test is reached only with tries left, the
\* controller is refreshed only in the first pass, and the pass after the
\* refresh runs with tries = 0 and ends the call.
C37_RuntimeErrorUnreachable ==
    /\ c_error # "RuntimeError"
    /\ c_pc = "loop" => tries # 0
    /\ c_pc \in {"refresh_start", "refresh"} => tries = 1 /\ c_refreshes = 1
    /\ (c_pc = "await" /\ c_refreshes = 1) => tries = 0
    /\ (c_pc = "done" /\ tries = 0 /\ c_refreshes = 1) =>
          c_outcome \in {"returned", "raised"}

\* the pass after the refresh was answered NotController again and raised it
C37_Witness ==
    /\ c_pc = "done"
    /\ c_refreshes = 1
    /\ tries = 0
    /\ Len(c_sent) = 2
    /\ c_outcome = "raised"
    /\ c_error = "NotControllerError"
(***************************************************************************)
(* Properties of the member order and of the result of assign.             *)
(***************************************************************************)
\* C36 as stated: the member order that assign builds holds every member of
\* group_subscriptions once, the static members sorted by group_instance_id
\* first and the dynamic members sorted by member id after them, in whatever
\* order group_subscriptions holds the members.
C36_AsStated ==
    a_pc = "done" =>
        LET members == member_list(group_subscriptions) IN
        /\ Len(members) = Len(group_subscriptions)
        /\ \A k \in DOMAIN group_subscriptions :
              \E i \in DOMAIN members :
                  members[i] = <<group_subscriptions[k].group_instance_id,
                                 group_subscriptions[k].member_id>>
        /\ \A i, j \in DOMAIN members :
              i < j =>
                  /\ members[i][1] = None => members[j][1] = None
                  /\ (members[i][1] = None) = (members[j][1] = None) =>
                        IdsLess(members[i], members[j])

\* the partitions that the result gives to the members, one entry for each
\* time a partition appears
AssignedPartitions ==
    Flatten([k \in DOMAIN a_verdict.protocol_assignment |->
                Flatten([i \in DOMAIN a_verdict.protocol_assignment[k].assignment |->
                            LET item == a_verdict.protocol_assignment[k].assignment[i]
                            IN [p \in DOMAIN item[2] |-> TP(item[1], item[2][p])]])])

\* C39 as stated: when the cluster has partition metadata for every
\* subscribed topic, assign returns, its result gives every partition of
\* every subscribed topic to exactly one member, and every member of
\* group_subscriptions has an entry in the result.
C39_AsStated ==
    (/\ a_pc = "done"
     /\ \A topic \in all_topics(group_subscriptions) : a_cluster[topic] > 0) =>
        /\ a_verdict.outcome = "returned"
        /\ \A topic \in all_topics(group_subscriptions) :
              \A partition \in partitions_for_topic(a_cluster, topic) :
                  Cardinality({i \in DOMAIN AssignedPartitions :
                                  AssignedPartitions[i] = TP(topic, partition)}) = 1
        /\ \A k \in DOMAIN group_subscriptions :
              \E i \in DOMAIN a_verdict.protocol_assignment :
                  a_verdict.protocol_assignment[i].member_id =
                      group_subscriptions[k].member_id

\* group_subscriptions with the same items inserted in another order
Reordered(subscriptions) ==
    {[i \in DOMAIN subscriptions |-> subscriptions[p[i]]] :
        p \in Permutations(DOMAIN subscriptions)}

\* what a result of assign gives to a member
AssignmentOf(verdict, member_id) ==
    {verdict.protocol_assignment[i].assignment :
        i \in {j \in DOMAIN verdict.protocol_assignment :
                   verdict.protocol_assignment[j].member_id = member_id}}

\* C40 as stated: a call of assign on the same members, subscriptions and
\* group_instance_ids inserted in another order ends as this call ended and
\* gives every member the same assignment.
C40_AsStated ==
    a_pc = "done" =>
        \A other \in Reordered(group_subscriptions) :
            /\ assign(a_cluster, other).outcome = a_verdict.outcome
            /\ \A member_id \in MemberIds :
                  AssignmentOf(assign(a_cluster, other), member_id) =
                      AssignmentOf(a_verdict, member_id)

====
